---- MODULE Spec2Model ----
(***************************************************************************)
(* Media ingestion and storage-quota accounting of timal:                  *)
(* MediaHandler.processAndUpload / deleteMedia (src/src/media-handler.js), *)
(* R2Storage (src/src/r2-storage.js) and the users / timeline_entries /    *)
(* media_attachments tables of Database (src/db/database.js).              *)
(*                                                                         *)
(* Every async method is cut at its await points: one action per segment   *)
(* that runs between two awaits, so that concurrent requests interleave    *)
(* exactly where the Node event loop lets them.                            *)
(*                                                                         *)
(* Sizes.  Buffers are measured in bytes.  A size in MB is the JavaScript   *)
(* number bytes / (1024 * 1024): a fraction with a power of two below it,  *)
(* which a double holds, adds, subtracts and compares exactly at the sizes *)
(* of the model.  The model holds the fraction itself, [num, den].         *)
(***************************************************************************)
EXTENDS Integers, Sequences, FiniteSets, TLC

VARIABLES
    users,        \* table users: id -> [tier, storage_used_mb]
    credentials,  \* table users: id -> [username, email, password_hash]
    sessions,     \* table sessions: set of rows
    entries,      \* table timeline_entries: id -> the columns that are not NULL
    nextEntryId,  \* AUTOINCREMENT counter of timeline_entries
    clock,        \* Date.now(), in milliseconds, as the auth requests see it
    issued,       \* history: the session ids login has generated so far
    media,        \* table media_attachments: set of rows
    nextMediaId,  \* AUTOINCREMENT counter of media_attachments
    objects,      \* keys of the objects held by the R2 bucket
    calls,        \* per request slot: the in-flight call and its locals
    ncalls,       \* number of calls started so far (bounded by MaxCalls)
    succeededMb   \* history: per user, MB stored by uploads that returned

accounts == <<credentials, sessions, nextEntryId, clock, issued>>

vars == <<users, entries, media, nextMediaId, objects, calls, ncalls, succeededMb,
          accounts>>

shared == <<users, entries, media, nextMediaId, objects, accounts>>

-----------------------------------------------------------------------------
(* Bounds of the model *)

NumProcs == 2
MaxCalls == 2

Procs == 1 .. NumProcs

-----------------------------------------------------------------------------
(* JavaScript values *)

\* undefined / null: a record, so that it compares with rows and keys
Undefined == [undefined |-> TRUE]

\* null in a property that otherwise holds a string: a token that none of
\* the strings of the model equals. A property that is undefined is a
\* missing key.
JsNull == "<null>"

\* rec.field in JavaScript: a missing property reads as undefined
JsGet(rec, field) == IF field \in DOMAIN rec THEN rec[field] ELSE Undefined

-----------------------------------------------------------------------------
(* Strings are sequences of one-character strings, over the characters     *)
(* U+0020 .. U+00FF (Basic Latin and Latin-1 Supplement) and the controls  *)
(* tab, line feed, form feed and carriage return: one UTF-16 code unit     *)
(* each, lower-cased one to one and without regard to context.             *)

UpperChars == <<"A","B","C","D","E","F","G","H","I","J","K","L","M",
                "N","O","P","Q","R","S","T","U","V","W","X","Y","Z">>
LowerChars == <<"a","b","c","d","e","f","g","h","i","j","k","l","m",
                "n","o","p","q","r","s","t","u","v","w","x","y","z">>
DigitChars == <<"0","1","2","3","4","5","6","7","8","9">>

\* the upper-case letters of the Latin-1 Supplement (U+00C0 .. U+00DE without
\* the multiplication sign) and their lower-case forms (U+00E0 .. U+00FE)
UpperLatin1 == <<"À","Á","Â","Ã","Ä","Å","Æ","Ç","È","É",
                 "Ê","Ë","Ì","Í","Î","Ï","Ð","Ñ","Ò","Ó",
                 "Ô","Õ","Ö","Ø","Ù","Ú","Û","Ü","Ý","Þ">>
LowerLatin1 == <<"à","á","â","ã","ä","å","æ","ç","è","é",
                 "ê","ë","ì","í","î","ï","ð","ñ","ò","ó",
                 "ô","õ","ö","ø","ù","ú","û","ü","ý","þ">>

Range(s) == { s[i] : i \in DOMAIN s }

IndexOf(c, s) == CHOOSE i \in DOMAIN s : s[i] = c

\* String.prototype.toLowerCase on one character
toLowerCaseChar(c) ==
    IF c \in Range(UpperChars) THEN LowerChars[IndexOf(c, UpperChars)]
    ELSE IF c \in Range(UpperLatin1) THEN LowerLatin1[IndexOf(c, UpperLatin1)]
    ELSE c

toLowerCase(s) == [i \in DOMAIN s |-> toLowerCaseChar(s[i])]

\* index of the last occurrence of c in s[from .. to]; 0 if none
LastIndexIn(c, s, from, to) ==
    LET hits == { i \in from .. to : s[i] = c }
    IN  IF hits = {} THEN 0 ELSE CHOOSE i \in hits : \A j \in hits : j <= i

\* path.posix.extname / basename: the index of the last character that is not
\* "/" (trailing separators are skipped); 0 when there is none
PathEnd(p) ==
    LET rest == { i \in DOMAIN p : p[i] # "/" }
    IN  IF rest = {} THEN 0 ELSE CHOOSE i \in rest : \A j \in rest : j <= i

\* first index of the last path segment, which ends at PathEnd(p)
BaseStart(p) == LastIndexIn("/", p, 1, PathEnd(p)) + 1

\* path.extname: from the last "." of the last segment to the end of that
\* segment; "" when there is no ".", when the only "." opens the segment and
\* when the segment is ".."
extname(p) ==
    LET start == BaseStart(p)
        end == PathEnd(p)
        dot == LastIndexIn(".", p, start, end)
    IN  IF dot = 0 \/ dot = start THEN <<>>
        ELSE IF p[start] = "." /\ dot = end /\ dot = start + 1 THEN <<>>
        ELSE SubSeq(p, dot, end)

EndsWith(s, suffix) ==
    /\ Len(suffix) <= Len(s)
    /\ SubSeq(s, Len(s) - Len(suffix) + 1, Len(s)) = suffix

\* path.basename(p, ext): the last segment, without ext when it ends with ext
\* and is longer.  Node compares ext from the right: when the whole segment
\* matches the tail of a longer ext, the result runs to the end of p, trailing
\* separators included.
basename(p, ext) ==
    LET start == BaseStart(p)
        seg == SubSeq(p, start, PathEnd(p))
        n == Len(seg)
        m == Len(ext)
    IN  IF ext = <<>> \/ m > Len(p) THEN seg
        ELSE IF ext = p THEN <<>>
        ELSE IF m < n /\ EndsWith(seg, ext) THEN SubSeq(seg, 1, n - m)
        ELSE IF m > n /\ SubSeq(ext, m - n + 1, m) = seg
        THEN SubSeq(p, start, Len(p))
        ELSE seg

-----------------------------------------------------------------------------
(* MediaHandler: static configuration and validation *)

supportedImages ==
    { <<".","j","p","g">>, <<".","j","p","e","g">>, <<".","p","n","g">>,
      <<".","w","e","b","p">>, <<".","g","i","f">> }

supportedVideos ==
    { <<".","m","p","4">>, <<".","w","e","b","m">>, <<".","m","o","v">>,
      <<".","a","v","i">> }

MaxImageMB == 10
MaxVideoMB == 100

maxFileSizeMB(mediaType) == IF mediaType = "image" THEN MaxImageMB ELSE MaxVideoMB

BytesPerMB == 1024 * 1024

\* the number num / (1024 * 1024)
Frac(num) == [num |-> num, den |-> BytesPerMB]

\* a whole number of MB as such a number: 600 is 600 * 1048576 / 1048576
MB(n) == Frac(n * BytesPerMB)

\* a + b, a - b, a <= b and a < b on these numbers
Plus(a, b) == Frac(a.num + b.num)
Minus(a, b) == Frac(a.num - b.num)
Leq(a, b) == a.num <= b.num
Less(a, b) == a.num < b.num

\* line 31: fileBuffer.length / (1024 * 1024)
fileSizeMB(length) == Frac(length)

\* the classification comparing the extension as written
mediaTypeOfCaseSensitive(originalFilename) ==
    LET extension == extname(originalFilename)
    IN  IF extension \in supportedImages THEN "image"
        ELSE IF extension \in supportedVideos THEN "video"
        ELSE "UnsupportedMediaType"

\* lines 30-41: the media type of a file name, or the thrown error
mediaTypeOf(originalFilename) ==
    LET extension == toLowerCase(extname(originalFilename))
    IN  IF extension \in supportedImages THEN "image"
        ELSE IF extension \in supportedVideos THEN "video"
        ELSE "UnsupportedMediaType"

\* line 44: fileSizeMB > this.maxFileSizeMB[mediaType]
exceedsMB(length, limitMB) == Less(MB(limitMB), fileSizeMB(length))

\* the size check accepting only sizes below the ceiling
validateBelowCeiling(originalFilename, length) ==
    LET mediaType == mediaTypeOf(originalFilename)
    IN  IF mediaType = "UnsupportedMediaType" THEN "UnsupportedMediaType"
        ELSE IF Leq(MB(maxFileSizeMB(mediaType)), fileSizeMB(length)) THEN "FileTooLarge"
        ELSE "none"

\* lines 30-46: the error thrown before the first await, or "none"
validate(originalFilename, length) ==
    LET mediaType == mediaTypeOf(originalFilename)
    IN  IF mediaType = "UnsupportedMediaType" THEN "UnsupportedMediaType"
        ELSE IF exceedsMB(length, maxFileSizeMB(mediaType)) THEN "FileTooLarge"
        ELSE "none"

\* line 45: what the message of the size error names
fileTooLargeDetail(originalFilename) ==
    LET mediaType == mediaTypeOf(originalFilename)
    IN  [mediaType |-> mediaType, limitMB |-> maxFileSizeMB(mediaType)]

-----------------------------------------------------------------------------
(* MediaHandler.processImage: dimensions *)

MaxDimension == 2048

\* null in a resize option
Null == 0

\* lines 127-133: the options handed to sharp's resize; {} when neither side
\* exceeds maxDimension
resizeOptions(metadata) ==
    IF metadata.width > MaxDimension \/ metadata.height > MaxDimension
    THEN [width |-> IF metadata.width > metadata.height THEN MaxDimension ELSE Null,
          height |-> IF metadata.height > metadata.width THEN MaxDimension ELSE Null]
    ELSE [width |-> Null, height |-> Null]

\* Math.round(a / b) for positive a and b
RoundDiv(a, b) == (2 * a + b) \div (2 * b)

\* sharp's resize: with one side given the other follows the aspect ratio,
\* rounded to the nearest pixel and one pixel at least, an image having no
\* side of 0 pixels; with none given the image keeps its size
resize(metadata, options) ==
    LET scaled(side, target, other) ==
            IF RoundDiv(side * target, other) < 1 THEN 1
            ELSE RoundDiv(side * target, other)
    IN  IF options.width # Null /\ options.height = Null
        THEN [width |-> options.width,
              height |-> scaled(metadata.height, options.width, metadata.width)]
        ELSE IF options.height # Null /\ options.width = Null
        THEN [width |-> scaled(metadata.width, options.height, metadata.height),
              height |-> options.height]
        ELSE metadata

\* lines 121-147: the dimensions sharp(processedBuffer).metadata() reports at
\* line 142, those of the encoded output, for the dimensions of the input
processedDimensions(metadata) == resize(metadata, resizeOptions(metadata))

-----------------------------------------------------------------------------
(* Quota: the tier table of the README (lines 53-55) *)

FreeTierStorageMB == 0
PersonalTierStorageMB == 600
ProTierStorageMB == -1

TierLimitMB(tier) ==
    CASE tier = "free" -> FreeTierStorageMB
      [] tier = "personal" -> PersonalTierStorageMB
      [] tier = "pro" -> ProTierStorageMB

-----------------------------------------------------------------------------
(* Database: the queries the media pipeline issues *)

getUserById(userId) ==
    IF userId \in DOMAIN users THEN users[userId] ELSE Undefined

\* UPDATE users SET storage_used_mb = ? WHERE id = ?
updateUserStorageUsage(userId, storageUsedMb) ==
    IF userId \in DOMAIN users
    THEN [users EXCEPT ![userId].storage_used_mb = storageUsedMb]
    ELSE users

\* FOREIGN KEY (entry_id) REFERENCES timeline_entries (id), foreign_keys = ON
ForeignKeyOk(entryId) == entryId \in DOMAIN entries

\* the row INSERT INTO media_attachments stores; upload_status takes its
\* column default
newMediaRow(id, mediaData) ==
    [id |-> id,
     entry_id |-> mediaData.entry_id,
     media_type |-> mediaData.media_type,
     file_size_mb |-> mediaData.file_size_mb,
     r2_key |-> mediaData.r2_key,
     thumbnail_r2_key |-> mediaData.thumbnail_r2_key,
     upload_status |-> "complete"]

\* SELECT ma.*, te.user_id as entry_user_id ... JOIN ... WHERE ma.id = ?
getMediaAttachment(mediaId) ==
    LET rows == { m \in media : m.id = mediaId /\ m.entry_id \in DOMAIN entries }
    IN  IF rows = {} THEN Undefined
        ELSE LET m == CHOOSE r \in rows : TRUE
             IN  [id |-> m.id,
                  entry_id |-> m.entry_id,
                  media_type |-> m.media_type,
                  file_size_mb |-> m.file_size_mb,
                  r2_key |-> m.r2_key,
                  thumbnail_r2_key |-> m.thumbnail_r2_key,
                  upload_status |-> m.upload_status,
                  entry_user_id |-> entries[m.entry_id].user_id]

-----------------------------------------------------------------------------
(* R2Storage: object keys *)

SafeChars == Range(UpperChars) \cup Range(LowerChars) \cup Range(DigitChars)
                \cup {"-", "_"}

\* .replace(/[^a-zA-Z0-9-_]/g, '_')
replaceUnsafe(s) == [i \in DOMAIN s |-> IF s[i] \in SafeChars THEN s[i] ELSE "_"]

MaxNameLen == 50

\* .substring(0, 50)
substring0(s, n) == SubSeq(s, 1, IF Len(s) < n THEN Len(s) ELSE n)

\* the base name sanitised but not truncated
sanitizedNameUntruncated(originalFilename) ==
    replaceUnsafe(basename(originalFilename, extname(originalFilename)))

\* lines 32-35 of r2-storage.js
sanitizedName(originalFilename) ==
    substring0(replaceUnsafe(basename(originalFilename, extname(originalFilename))),
               MaxNameLen)

\* `users/${userId}/${timestamp}_${randomId}_${sanitizedName}${extension}`
objectKey(userId, timestamp, randomId, originalFilename) ==
    [userId |-> userId,
     timestamp |-> timestamp,
     randomId |-> randomId,
     name |-> sanitizedName(originalFilename),
     extension |-> extname(originalFilename)]

HexChars == <<"0","1","2","3","4","5","6","7","8","9","a","b","c","d","e","f">>

RECURSIVE digitsOf(_)
\* the decimal digits of a natural number, as template literals print it
digitsOf(n) ==
    IF n < 10 THEN <<DigitChars[n + 1]>>
    ELSE Append(digitsOf(n \div 10), DigitChars[(n % 10) + 1])

RECURSIVE hexOf(_, _)
\* Buffer.toString('hex'): two digits per byte, so width digits in all
hexOf(n, width) ==
    IF width = 0 THEN <<>>
    ELSE Append(hexOf(n \div 16, width - 1), HexChars[(n % 16) + 1])

RandomHexLen == 16

\* line 37 of r2-storage.js: the key as the string the bucket is given
keyString(key) ==
    <<"u", "s", "e", "r", "s", "/">> \o digitsOf(key.userId) \o <<"/">>
        \o digitsOf(key.timestamp) \o <<"_">>
        \o hexOf(key.randomId, RandomHexLen) \o <<"_">>
        \o key.name \o key.extension

-----------------------------------------------------------------------------
(* AuthService: validation and password hashes *)

\* \s among the characters of the model; the last one is U+00A0
Whitespace == {" ", "\t", "\n", "\f", "\r", " "}

MinPasswordLen == 6

\* isValidEmail: /^[^\s@]+@[^\s@]+\.[^\s@]+$/
isValidEmail(email) ==
    \E at \in 2 .. Len(email) - 3 :
        /\ email[at] = "@"
        /\ \A i \in 1 .. Len(email) :
              /\ email[i] \notin Whitespace
              /\ i # at => email[i] # "@"
        /\ \E dot \in at + 2 .. Len(email) - 1 : email[dot] = "."

\* crypto.pbkdf2Sync(password, salt, ...): a derivation without collisions
pbkdf2(password, salt) == <<password, salt>>

\* hashPassword: `${salt}:${hash}`
hashPassword(password, salt) == [salt |-> salt, hash |-> pbkdf2(password, salt)]

verifyPassword(password, storedHash) ==
    storedHash.hash = pbkdf2(password, storedHash.salt)

\* the checks of register that precede its first query (lines 160-171)
registerInputError(username, email, password) ==
    IF username = <<>> \/ email = <<>> \/ password = <<>> THEN "AllFieldsRequired"
    ELSE IF Len(password) < MinPasswordLen THEN "PasswordTooShort"
    ELSE IF ~isValidEmail(email) THEN "InvalidEmail"
    ELSE "none"

\* the session lifetime login grants: 24 hours in milliseconds
SessionLifetimeMs == 24 * 60 * 60 * 1000

-----------------------------------------------------------------------------
(* Inputs *)

MiB(n) == n * BytesPerMB

\* the files a request may carry: [originalFilename, length in bytes]
Files ==
    { [originalFilename |-> <<"a", ".", "J", "P", "G">>, length |-> MiB(5)],
      [originalFilename |-> <<"c", ".", "p", "n", "g">>, length |-> MiB(10)],
      [originalFilename |-> <<"v", ".", "m", "p", "4">>,
       length |-> MiB(10) + BytesPerMB \div 2],
      [originalFilename |-> <<"n", ".", "t", "x", "t">>, length |-> MiB(1)] }

\* user 4 and entry 4 do not exist
UserIdInputs == 1 .. 4
EntryIdInputs == {1, 3, 4}

\* what Date.now() and crypto.randomBytes(8) may return: a time of one digit
\* and one of ten, the least random value and one of eight hex digits.  The
\* form of a key does not depend on whether a value is drawn again.
Timestamps == {0, 1234567890}
RandomIds == {0, 2147483647}

\* what crypto.randomBytes(16), the salt of hashPassword, may return
Salts == {0}

\* the byte lengths drawn for the output of sharp's JPEG re-encode of a
\* buffer: the encoder decides, the result may be smaller than, equal to or
\* larger than the input
ProcessedLengths(length) ==
    { n \in {length - BytesPerMB, length, length + BytesPerMB} : n > 0 }

\* the width and height drawn for what sharp reports of an uploaded image
MetadataInputs == { [width |-> 3000, height |-> 2000] }

-----------------------------------------------------------------------------
(* Initial database and bucket: three accounts, one per tier, each with one *)
(* timeline entry; the stored attachments add up to storage_used_mb.        *)

InitSizesMB(userId) ==
    CASE userId = 1 -> <<100, 100, 100, 100, 100, 90>>
      [] userId = 2 -> <<>>
      [] userId = 3 -> <<100, 100, 100, 100, 100, 100, 100>>

SeqSum(s) ==
    LET sum[i \in 0 .. Len(s)] == IF i = 0 THEN 0 ELSE sum[i - 1] + s[i]
    IN  sum[Len(s)]

InitTier(userId) ==
    CASE userId = 1 -> "personal" [] userId = 2 -> "free" [] userId = 3 -> "pro"

InitUsers ==
    [u \in 1 .. 3 |-> [tier |-> InitTier(u),
                       storage_used_mb |-> MB(SeqSum(InitSizesMB(u)))]]

InitEntries ==
    [e \in 1 .. 3 |-> [user_id |-> e, entry_date |-> "2024-01-01",
                        entry_text |-> "first", entry_type |-> "text"]]

FirstEntryId == 4

\* the password every seeded account was registered with
InitPassword == <<"s", "e", "c", "r", "e", "t">>

InitUsername(userId) ==
    CASE userId = 1 -> <<"a", "n", "n">>
      [] userId = 2 -> <<"b", "o", "b">>
      [] userId = 3 -> <<"c", "y", "d">>

InitEmail(userId) == InitUsername(userId) \o <<"@", "x", ".", "i", "o">>

InitCredentials ==
    [u \in 1 .. 3 |-> [username |-> InitUsername(u),
                       email |-> InitEmail(u),
                       password_hash |-> hashPassword(InitPassword, 0)]]

InitAccounts ==
    /\ credentials = InitCredentials
    /\ sessions = {}
    /\ nextEntryId = FirstEntryId
    /\ clock = 0
    /\ issued = {}

InitKey(userId, i) ==
    objectKey(userId, i, 0, <<"o", "l", "d", ".", "m", "p", "4">>)

InitMedia ==
    { newMediaRow(10 * u + i,
                  [entry_id |-> u, media_type |-> "video",
                   file_size_mb |-> MB(InitSizesMB(u)[i]),
                   r2_key |-> InitKey(u, i), thumbnail_r2_key |-> Undefined])
      : <<u, i>> \in { <<v, j>> \in (1 .. 3) \X (1 .. 7) : j <= Len(InitSizesMB(v)) } }

\* AUTOINCREMENT: the id after the largest stored one
FirstMediaId ==
    (CHOOSE i \in { m.id : m \in InitMedia } :
        \A j \in { m.id : m \in InitMedia } : j <= i) + 1

IdleCall ==
    [op |-> "none", pc |-> "idle", result |-> "none",
     userId |-> 0, entryId |-> 0, mediaId |-> 0,
     originalFilename |-> <<>>, length |-> 0,
     mediaType |-> "none", user |-> Undefined,
     processedLength |-> 0, key |-> Undefined, detail |-> Undefined,
     media |-> Undefined,
     dimensions |-> Undefined,
     sessionId |-> "", session |-> Undefined,
     username |-> <<>>, email |-> <<>>, password |-> <<>>,
     passwordHash |-> Undefined, method |-> "none", body |-> Undefined,
     deadAtCall |-> FALSE, expiredAtCall |-> FALSE,
     logged |-> "none"]

Init ==
    /\ users = InitUsers
    /\ entries = InitEntries
    /\ InitAccounts
    /\ media = InitMedia
    /\ nextMediaId = FirstMediaId
    /\ objects = { m.r2_key : m \in InitMedia }
    /\ calls = [p \in Procs |-> IdleCall]
    /\ ncalls = 0
    /\ succeededMb = [u \in 1 .. 3 |-> MB(0)]

-----------------------------------------------------------------------------
(* MediaHandler.processAndUpload *)

\* the catch block of a method: log and rethrow.  The call ends with the
\* error; the slot remembers who called, with which file, for which entry
\* and attachment, and the user row the call had read; the other locals are
\* gone.
Thrown(c, error) ==
    [IdleCall EXCEPT !.op = c.op,
                     !.pc = "done",
                     !.result = error,
                     !.userId = c.userId,
                     !.entryId = c.entryId,
                     !.mediaId = c.mediaId,
                     !.originalFilename = c.originalFilename,
                     !.length = c.length,
                     !.user = c.user]

Throw(p, error) == [calls EXCEPT ![p] = Thrown(calls[p], error)]

\* a request is served in the first slot that holds no call in flight
Free(p) == calls[p].pc \in {"idle", "done"}
FirstFree(p) == Free(p) /\ \A q \in Procs : q < p => ~Free(q)

\* lines 28-49: validation, then the call to db.getUserById
UploadCall(p, userId, entryId, file) ==
    /\ FirstFree(p)
    /\ ncalls < MaxCalls
    /\ ncalls' = ncalls + 1
    /\ LET started == [IdleCall EXCEPT !.op = "upload",
                                       !.userId = userId,
                                       !.entryId = entryId,
                                       !.originalFilename = file.originalFilename,
                                       !.length = file.length]
           error == validate(file.originalFilename, file.length)
       IN  calls' = [calls EXCEPT ![p] =
               IF error = "FileTooLarge"
               THEN [Thrown(started, error) EXCEPT
                        !.detail = fileTooLargeDetail(file.originalFilename)]
               ELSE IF error # "none"
               THEN Thrown(started, error)
               ELSE [started EXCEPT !.pc = "getUser",
                                    !.mediaType = mediaTypeOf(file.originalFilename)]]
    /\ UNCHANGED <<shared, succeededMb>>

\* the call of line 52 writing the object before it throws
UploadGetUserStoring(p) ==
    /\ calls[p].op = "upload" /\ calls[p].pc = "getUser"
    /\ LET c == calls[p]
           user == getUserById(c.userId)
       IN  /\ calls' = [calls EXCEPT ![p] =
                   Thrown([c EXCEPT !.user = user],
                          IF user = Undefined THEN "UserNotFound" ELSE "TypeError")]
           /\ objects' = IF user = Undefined THEN objects
                         ELSE objects \cup {objectKey(c.userId, 0, 0, c.originalFilename)}
    /\ UNCHANGED <<users, entries, media, nextMediaId, ncalls, succeededMb, accounts>>

\* the call of line 52 charging the size to the account before it throws
UploadGetUserReserving(p) ==
    /\ calls[p].op = "upload" /\ calls[p].pc = "getUser"
    /\ LET c == calls[p]
           user == getUserById(c.userId)
       IN  /\ calls' = [calls EXCEPT ![p] =
                   Thrown([c EXCEPT !.user = user],
                          IF user = Undefined THEN "UserNotFound" ELSE "TypeError")]
           /\ users' = IF user = Undefined THEN users
                       ELSE updateUserStorageUsage(c.userId,
                                Plus(user.storage_used_mb, fileSizeMB(c.length)))
    /\ UNCHANGED <<entries, media, nextMediaId, objects, ncalls, succeededMb, accounts>>

\* the call of line 52 preceded by the insert of the attachment row on the
\* entry the request names
UploadGetUserInserting(p) ==
    /\ calls[p].op = "upload" /\ calls[p].pc = "getUser"
    /\ LET c == calls[p]
           user == getUserById(c.userId)
           inserts == user # Undefined /\ ForeignKeyOk(c.entryId)
       IN  /\ calls' = [calls EXCEPT ![p] =
                   Thrown([c EXCEPT !.user = user],
                          IF user = Undefined THEN "UserNotFound" ELSE "TypeError")]
           /\ media' = IF ~inserts THEN media
                       ELSE media \cup
                            { newMediaRow(nextMediaId,
                                  [entry_id |-> c.entryId,
                                   media_type |-> c.mediaType,
                                   file_size_mb |-> fileSizeMB(c.length),
                                   r2_key |-> objectKey(c.userId, 0, 0, c.originalFilename),
                                   thumbnail_r2_key |-> Undefined]) }
           /\ nextMediaId' = IF inserts THEN nextMediaId + 1 ELSE nextMediaId
    /\ UNCHANGED <<users, entries, objects, ncalls, succeededMb, accounts>>

\* the call of line 52 never returning: the request stays in flight
UploadGetUserHangs(p) ==
    /\ calls[p].op = "upload" /\ calls[p].pc = "getUser"
    /\ LET c == calls[p]
           user == getUserById(c.userId)
       IN  calls' = IF user = Undefined THEN Throw(p, "UserNotFound")
                    ELSE [calls EXCEPT ![p].pc = "hung", ![p].user = user]
    /\ UNCHANGED <<shared, ncalls, succeededMb>>

\* a missing user row taken for a new free account
UploadGetUserDefaultsMissing(p) ==
    /\ calls[p].op = "upload" /\ calls[p].pc = "getUser"
    /\ LET c == calls[p]
           row == getUserById(c.userId)
           user == IF row = Undefined
                   THEN [tier |-> "free", storage_used_mb |-> MB(0)]
                   ELSE row
       IN  calls' = [calls EXCEPT ![p] = Thrown([c EXCEPT !.user = user], "TypeError")]
    /\ UNCHANGED <<shared, ncalls, succeededMb>>

\* lines 49-52 and 108-111: the user row arrives.  Without one the call
\* throws 'User not found' (line 50).  With one, line 52 calls
\* this.checkMediaUploadPermission, a method class MediaHandler (lines
\* 5-227) does not define: the call of undefined throws a TypeError.  Either
\* error is caught at line 108, logged and thrown again: the call ends, and
\* lines 53-106 are not reached.
UploadGetUser(p) ==
    /\ calls[p].op = "upload" /\ calls[p].pc = "getUser"
    /\ LET c == calls[p]
           user == getUserById(c.userId)
       IN  calls' = [calls EXCEPT ![p] =
               Thrown([c EXCEPT !.user = user],
                      IF user = Undefined THEN "UserNotFound" ELSE "TypeError")]
    /\ UNCHANGED <<shared, ncalls, succeededMb>>

\* line 49: db.getUserById rejects; the catch of lines 108-111 rethrows
UploadGetUserFails(p) ==
    /\ calls[p].op = "upload" /\ calls[p].pc = "getUser"
    /\ calls' = Throw(p, "DatabaseFailure")
    /\ UNCHANGED <<shared, ncalls, succeededMb>>

\* Lines 57-106, which follow the call of line 52.  No processAndUpload call
\* reaches them; processImage (lines 119-155) is also a method of its own.
\* The three waits of processImage: image.metadata() (line 122), toBuffer()
\* (lines 137-140) and sharp(processedBuffer).metadata() (line 142)
ImageWaits == {"transform", "toBuffer", "finalMetadata"}

\* lines 122-140: the metadata of the decoded image arrives; the resize
\* options follow from it and the encode is started
UploadImageMetadata(p, metadata) ==
    /\ calls[p].op = "upload" /\ calls[p].pc = "transform"
    /\ calls' = [calls EXCEPT ![p].pc = "toBuffer", ![p].dimensions = metadata]
    /\ UNCHANGED <<shared, ncalls, succeededMb>>

\* lines 137-142: the encoded buffer arrives, of whatever length the encoder
\* gave it; its metadata is asked for
UploadImageToBuffer(p, n) ==
    /\ calls[p].op = "upload" /\ calls[p].pc = "toBuffer"
    /\ calls' = [calls EXCEPT ![p].pc = "finalMetadata", ![p].processedLength = n]
    /\ UNCHANGED <<shared, ncalls, succeededMb>>

\* lines 142-150 and 64-81: the metadata of the encoded buffer arrives,
\* processImage returns and r2.uploadFile is called with the encoded buffer
UploadImageFinalMetadata(p) ==
    /\ calls[p].op = "upload" /\ calls[p].pc = "finalMetadata"
    /\ calls' = [calls EXCEPT ![p].pc = "put",
                              ![p].dimensions = processedDimensions(@)]
    /\ UNCHANGED <<shared, ncalls, succeededMb>>

\* lines 61-66 and 119-150: sharp resizes and re-encodes the image, one wait
\* at a time
UploadProcessImage(p) ==
    \/ \E metadata \in MetadataInputs : UploadImageMetadata(p, metadata)
    \/ \E n \in ProcessedLengths(calls[p].length) : UploadImageToBuffer(p, n)
    \/ UploadImageFinalMetadata(p)

\* lines 151-154: sharp rejects at one of the three waits
UploadProcessImageFails(p) ==
    /\ calls[p].op = "upload" /\ calls[p].pc \in ImageWaits
    /\ calls' = Throw(p, "TransformFailure")
    /\ UNCHANGED <<shared, ncalls, succeededMb>>

\* lines 76-81 and R2Storage.uploadFile: the object is stored under a new key
UploadPut(p) ==
    /\ calls[p].op = "upload" /\ calls[p].pc = "put"
    /\ \E timestamp \in Timestamps, randomId \in RandomIds :
          LET key == objectKey(calls[p].userId, timestamp, randomId,
                               calls[p].originalFilename)
          IN  /\ objects' = objects \cup {key}
              /\ calls' = [calls EXCEPT ![p].pc = "insert", ![p].key = key]
    /\ UNCHANGED <<users, entries, media, nextMediaId, ncalls, succeededMb, accounts>>

\* R2Storage.uploadFile lines 63-66: the PutObject command fails
UploadPutFails(p) ==
    /\ calls[p].op = "upload" /\ calls[p].pc = "put"
    /\ calls' = Throw(p, "StoreFailure")
    /\ UNCHANGED <<shared, ncalls, succeededMb>>

\* uploadResult.size / (1024 * 1024)
storedSizeMB(c) == fileSizeMB(c.processedLength)

\* lines 84-95: the attachment row is inserted
UploadInsert(p) ==
    /\ calls[p].op = "upload" /\ calls[p].pc = "insert"
    /\ ForeignKeyOk(calls[p].entryId)
    /\ LET c == calls[p]
       IN  media' = media \cup
               { newMediaRow(nextMediaId,
                             [entry_id |-> c.entryId,
                              media_type |-> c.mediaType,
                              file_size_mb |-> storedSizeMB(c),
                              r2_key |-> c.key,
                              thumbnail_r2_key |-> Undefined]) }
    /\ nextMediaId' = nextMediaId + 1
    /\ calls' = [calls EXCEPT ![p].pc = "updateUsage", ![p].mediaId = nextMediaId]
    /\ UNCHANGED <<users, entries, objects, ncalls, succeededMb, accounts>>

\* the INSERT is rejected (foreign key, or any database error)
UploadInsertFails(p) ==
    /\ calls[p].op = "upload" /\ calls[p].pc = "insert"
    /\ calls' = Throw(p, "InsertFailure")
    /\ UNCHANGED <<shared, ncalls, succeededMb>>

\* line 98: the value written to storage_used_mb
newStorageUsed(c) == Plus(c.user.storage_used_mb, storedSizeMB(c))

\* lines 97-106: the counter is written and the call returns
UploadUpdateUsage(p) ==
    /\ calls[p].op = "upload" /\ calls[p].pc = "updateUsage"
    /\ users' = updateUserStorageUsage(calls[p].userId, newStorageUsed(calls[p]))
    /\ calls' = [calls EXCEPT ![p].pc = "done", ![p].result = "ok"]
    /\ succeededMb' = [succeededMb EXCEPT
                           ![calls[p].userId] = Plus(@, storedSizeMB(calls[p]))]
    /\ UNCHANGED <<entries, media, nextMediaId, objects, ncalls, accounts>>

\* the UPDATE fails
UploadUpdateUsageFails(p) ==
    /\ calls[p].op = "upload" /\ calls[p].pc = "updateUsage"
    /\ calls' = Throw(p, "UsageUpdateFailure")
    /\ UNCHANGED <<shared, ncalls, succeededMb>>

-----------------------------------------------------------------------------
(* R2Storage.uploadFile, called on its own *)

\* r2-storage.js lines 27-52: the key is built from Date.now(), from
\* crypto.randomBytes(8), from the extension and the sanitised base name of
\* the file, and from the user id; the PutObject command is sent
UploadFileCall(p, originalFilename, length, userId, timestamp, randomId) ==
    /\ FirstFree(p)
    /\ ncalls < MaxCalls
    /\ ncalls' = ncalls + 1
    /\ calls' = [calls EXCEPT ![p] =
           [IdleCall EXCEPT !.op = "uploadFile", !.pc = "send",
                            !.userId = userId,
                            !.originalFilename = originalFilename,
                            !.length = length,
                            !.key = objectKey(userId, timestamp, randomId,
                                              originalFilename)]]
    /\ UNCHANGED <<shared, succeededMb>>

\* lines 52-62: the object is stored under the key, which is returned with
\* the size of the buffer
UploadFileSend(p) ==
    /\ calls[p].op = "uploadFile" /\ calls[p].pc = "send"
    /\ objects' = objects \cup {calls[p].key}
    /\ calls' = [calls EXCEPT ![p].pc = "done", ![p].result = "ok"]
    /\ UNCHANGED <<users, entries, media, nextMediaId, ncalls, succeededMb, accounts>>

\* lines 63-66: the object store rejects; 'Failed to upload file' is thrown
UploadFileSendFails(p) ==
    /\ calls[p].op = "uploadFile" /\ calls[p].pc = "send"
    /\ calls' = Throw(p, "StoreFailure")
    /\ UNCHANGED <<shared, ncalls, succeededMb>>

-----------------------------------------------------------------------------
(* MediaHandler.deleteMedia *)

\* lines 178-181: the call to db.getMediaAttachment
DeleteCall(p, mediaId, userId) ==
    /\ FirstFree(p)
    /\ ncalls < MaxCalls
    /\ ncalls' = ncalls + 1
    /\ calls' = [calls EXCEPT ![p] =
           [IdleCall EXCEPT !.op = "delete", !.pc = "getMedia",
                            !.mediaId = mediaId, !.userId = userId]]
    /\ UNCHANGED <<shared, succeededMb>>

\* line 182: !media || media.entry.user_id !== userId.  The row is flat
\* (entry_user_id), so media.entry is undefined and reading user_id of it
\* throws a TypeError, caught and rethrown at lines 200-203.
ownershipCheck(mediaRow, userId) ==
    IF mediaRow = Undefined THEN "NotFoundOrDenied"
    ELSE LET entry == JsGet(mediaRow, "entry")
         IN  IF entry = Undefined THEN "TypeError"
             ELSE IF JsGet(entry, "user_id") # userId THEN "NotFoundOrDenied"
             ELSE "none"

\* lines 181-187: the row arrives and the ownership check runs; r2.deleteFile
\* is called for the key of a row that passed
DeleteGetMedia(p) ==
    /\ calls[p].op = "delete" /\ calls[p].pc = "getMedia"
    /\ LET mediaRow == getMediaAttachment(calls[p].mediaId)
           error == ownershipCheck(mediaRow, calls[p].userId)
       IN  calls' = IF error # "none" THEN Throw(p, error)
                    ELSE [calls EXCEPT ![p].pc = "deleteFile", ![p].media = mediaRow]
    /\ UNCHANGED <<shared, ncalls, succeededMb>>

\* lines 187-193 and R2Storage.deleteFile (r2-storage.js 95-103): the object
\* under the key is deleted; the thumbnail of a row that has one follows,
\* then the call to db.deleteMediaAttachment
DeleteFile(p) ==
    /\ calls[p].op = "delete" /\ calls[p].pc \in {"deleteFile", "deleteThumbnail"}
    /\ LET c == calls[p]
       IN  /\ objects' = objects \ { IF c.pc = "deleteFile" THEN c.media.r2_key
                                      ELSE c.media.thumbnail_r2_key }
           /\ calls' = [calls EXCEPT ![p].pc =
                           IF c.pc = "deleteFile" /\ c.media.thumbnail_r2_key # Undefined
                           THEN "deleteThumbnail"
                           ELSE "deleteRow"]
    /\ UNCHANGED <<users, entries, media, nextMediaId, ncalls, succeededMb, accounts>>

\* r2-storage.js lines 104-107: the object store rejects, deleteFile throws
\* 'Failed to delete file', rethrown at lines 200-203
DeleteFileFails(p) ==
    /\ calls[p].op = "delete" /\ calls[p].pc \in {"deleteFile", "deleteThumbnail"}
    /\ calls' = Throw(p, "DeleteFileFailure")
    /\ UNCHANGED <<shared, ncalls, succeededMb>>

\* DELETE FROM media_attachments WHERE id = ?
deleteMediaAttachment(mediaId) == { m \in media : m.id # mediaId }

\* lines 193-196: the row is deleted; then the call to db.getUserById
DeleteRow(p) ==
    /\ calls[p].op = "delete" /\ calls[p].pc = "deleteRow"
    /\ media' = deleteMediaAttachment(calls[p].mediaId)
    /\ calls' = [calls EXCEPT ![p].pc = "getUser"]
    /\ UNCHANGED <<users, entries, nextMediaId, objects, ncalls, succeededMb, accounts>>

\* line 197: the value deleteMedia writes to storage_used_mb, from the user
\* row read at line 196 and the attachment row read at line 181
storageAfterDelete(user, mediaRow) ==
    Minus(user.storage_used_mb, mediaRow.file_size_mb)

\* lines 196-197: the user row arrives; the counter less the recorded size
\* is the argument of the call to db.updateUserStorageUsage
DeleteGetUser(p) ==
    /\ calls[p].op = "delete" /\ calls[p].pc = "getUser"
    /\ LET user == getUserById(calls[p].userId)
       IN  calls' = IF user = Undefined THEN Throw(p, "TypeError")
                    ELSE [calls EXCEPT ![p].pc = "updateUsage", ![p].user = user]
    /\ UNCHANGED <<shared, ncalls, succeededMb>>

\* lines 197-199: the UPDATE runs and deleteMedia returns true
DeleteUpdateUsage(p) ==
    /\ calls[p].op = "delete" /\ calls[p].pc = "updateUsage"
    /\ users' = updateUserStorageUsage(calls[p].userId,
                    storageAfterDelete(calls[p].user, calls[p].media))
    /\ calls' = [calls EXCEPT ![p].pc = "done", ![p].result = "ok"]
    /\ UNCHANGED <<entries, media, nextMediaId, objects, ncalls, succeededMb, accounts>>

\* a query of deleteMedia rejects; the catch of lines 200-203 rethrows
DeleteRejects(p) ==
    /\ calls[p].op = "delete"
    /\ calls[p].pc \in {"getMedia", "deleteRow", "getUser", "updateUsage"}
    /\ calls' = Throw(p, "DatabaseFailure")
    /\ UNCHANGED <<shared, ncalls, succeededMb>>

\* the media ids a delete request may name: one stored attachment of user 1,
\* one of user 3, and an absent id
MediaIdInputs == {0, 11, 31}

-----------------------------------------------------------------------------
(* MediaHandler.getMediaUrl *)

\* lines 212-214: the call to db.getMediaAttachment
UrlCall(p, mediaId, userId) ==
    /\ FirstFree(p)
    /\ ncalls < MaxCalls
    /\ ncalls' = ncalls + 1
    /\ calls' = [calls EXCEPT ![p] =
           [IdleCall EXCEPT !.op = "url", !.pc = "getMedia",
                            !.mediaId = mediaId, !.userId = userId]]
    /\ UNCHANGED <<shared, succeededMb>>

\* lines 214-217: the row arrives and the ownership check runs; line 221,
\* r2.getSignedUrl(media.r2_key), follows a check that passed
UrlGetMedia(p) ==
    /\ calls[p].op = "url" /\ calls[p].pc = "getMedia"
    /\ LET error == ownershipCheck(getMediaAttachment(calls[p].mediaId),
                                   calls[p].userId)
       IN  calls' = IF error # "none" THEN Throw(p, error)
                    ELSE [calls EXCEPT ![p].pc = "getSignedUrl"]
    /\ UNCHANGED <<shared, ncalls, succeededMb>>

\* line 214: db.getMediaAttachment rejects; the catch of lines 223-226
\* rethrows
UrlGetMediaFails(p) ==
    /\ calls[p].op = "url" /\ calls[p].pc = "getMedia"
    /\ calls' = Throw(p, "DatabaseFailure")
    /\ UNCHANGED <<shared, ncalls, succeededMb>>

-----------------------------------------------------------------------------
(* TimalServer.handleTimelineRequest *)

\* DELETE FROM timeline_entries WHERE id = ? AND user_id = ?
deleteTimelineEntry(entryId, userId) ==
    IF entryId \in DOMAIN entries /\ entries[entryId].user_id = userId
    THEN [e \in DOMAIN entries \ {entryId} |-> entries[e]]
    ELSE entries

\* FOREIGN KEY (entry_id) ... ON DELETE CASCADE, foreign_keys = ON: the
\* attachment rows left once the rows of the deleted entries are gone
cascadeMedia(entriesLeft) == { m \in media : m.entry_id \in DOMAIN entriesLeft }

\* lines 436-441: DELETE /api/timeline/{id} by the authenticated user; one
\* statement, and nothing else is written
TimelineDelete(entryId, userId) ==
    /\ ncalls < MaxCalls
    /\ ncalls' = ncalls + 1
    /\ entries' = deleteTimelineEntry(entryId, userId)
    /\ media' = cascadeMedia(deleteTimelineEntry(entryId, userId))
    /\ UNCHANGED <<users, nextMediaId, objects, calls, succeededMb, accounts>>

\* A row of timeline_entries is the record of its columns that are not NULL;
\* a property that is missing (undefined) or null (JsNull) binds as NULL.

\* entry_type ... CHECK(entry_type IN ('text', 'image', 'video', 'mixed'))
EntryTypes == {"text", "image", "video", "mixed"}

\* createTimelineEntry, lines 232-235: the columns of the INSERT. The
\* default of the destructuring gives entry_type 'text' when the property is
\* undefined, and leaves a null, which binds as NULL like a null date or text
newEntryRow(entryData) ==
    LET data == IF "entry_type" \in DOMAIN entryData THEN entryData
                ELSE entryData @@ [entry_type |-> "text"]
        bound == { c \in DOMAIN data \cap {"entry_date", "entry_text", "entry_type"} :
                     data[c] # JsNull }
    IN  [c \in (DOMAIN data \cap {"user_id"}) \cup bound |-> data[c]]

\* database.js lines 66-72: user_id and entry_date are NOT NULL, user_id
\* references users (foreign_keys = ON) and entry_type has its CHECK, which
\* a NULL passes; a row that breaks one of them makes the statement fail
entryRowRejected(row) ==
    \/ "user_id" \notin DOMAIN row
    \/ "entry_date" \notin DOMAIN row
    \/ row.user_id \notin DOMAIN users
    \/ "entry_type" \in DOMAIN row /\ row.entry_type \notin EntryTypes

\* INSERT INTO timeline_entries (user_id, entry_date, entry_text, entry_type):
\* the table after the statement; a failed INSERT writes no row
createTimelineEntry(entryData) ==
    IF entryRowRejected(newEntryRow(entryData)) THEN entries
    ELSE entries @@ (nextEntryId :> newEntryRow(entryData))

\* AUTOINCREMENT: the counter moves only when a row was written
nextEntryIdAfter(entriesAfter) ==
    IF nextEntryId \in DOMAIN entriesAfter THEN nextEntryId + 1 ELSE nextEntryId

\* SET entry_date = ?, entry_text = ?: the row with the two columns replaced
updatedEntryRow(row, updates) ==
    LET set == { c \in DOMAIN updates \cap {"entry_date", "entry_text"} :
                   updates[c] # JsNull }
    IN  [c \in (DOMAIN row \ {"entry_date", "entry_text"}) \cup set |->
            IF c \in set THEN updates[c] ELSE row[c]]

\* the UPDATE without its condition on user_id
updateTimelineEntryAnyOwner(entryId, userId, updates) ==
    IF entryId \in DOMAIN entries
    THEN IF entryRowRejected(updatedEntryRow(entries[entryId], updates)) THEN entries
         ELSE [entries EXCEPT ![entryId] = updatedEntryRow(@, updates)]
    ELSE entries

\* UPDATE timeline_entries SET entry_date = ?, entry_text = ? WHERE id = ?
\* AND user_id = ?: the table after the statement; the constraints are
\* checked on a row that matches, and a failed UPDATE changes nothing
updateTimelineEntry(entryId, userId, updates) ==
    IF entryId \in DOMAIN entries /\ entries[entryId].user_id = userId
    THEN IF entryRowRejected(updatedEntryRow(entries[entryId], updates)) THEN entries
         ELSE [entries EXCEPT ![entryId] = updatedEntryRow(@, updates)]
    ELSE entries

\* the UPDATE throws: a row matches and its new values break a constraint
updateRejected(entryId, userId, updates) ==
    /\ entryId \in DOMAIN entries
    /\ entries[entryId].user_id = userId
    /\ entryRowRejected(updatedEntryRow(entries[entryId], updates))

\* lines 429-432: the updates PUT passes, body.date and body.text
entryUpdates(body) ==
    LET property(c) == IF c = "entry_date" THEN "date" ELSE "text"
    IN  [c \in { k \in {"entry_date", "entry_text"} : property(k) \in DOMAIN body } |->
            body[property(c)]]

\* lines 419-424: the entry POST passes, entry_type being body.type ||
\* 'text': 'text' stands in for a type that is absent and for one that is
\* falsy, null or the empty string
entryDataOf(userId, body) ==
    [user_id |-> userId,
     entry_type |-> IF "type" \in DOMAIN body /\ body.type \notin {"", JsNull}
                    THEN body.type ELSE "text"]
        @@ entryUpdates(body)

\* a create that also counts the new entry against the account's usage
TimelineCreateCounted(userId, body) ==
    /\ ncalls < MaxCalls
    /\ ncalls' = ncalls + 1
    /\ entries' = createTimelineEntry(entryDataOf(userId, body))
    /\ nextEntryId' = nextEntryIdAfter(createTimelineEntry(entryDataOf(userId, body)))
    /\ users' = updateUserStorageUsage(userId, Plus(users[userId].storage_used_mb, MB(1)))
    /\ UNCHANGED <<media, nextMediaId, objects, calls, succeededMb,
                   credentials, sessions, clock, issued>>

\* lines 417-426: POST /api/timeline by the authenticated user; a failed
\* INSERT throws and handleRequest (lines 303-306) answers 500
TimelineCreate(userId, body) ==
    /\ ncalls < MaxCalls
    /\ ncalls' = ncalls + 1
    /\ entries' = createTimelineEntry(entryDataOf(userId, body))
    /\ nextEntryId' = nextEntryIdAfter(createTimelineEntry(entryDataOf(userId, body)))
    /\ UNCHANGED <<users, media, nextMediaId, objects, calls, succeededMb,
                   credentials, sessions, clock, issued>>

\* lines 427-435: PUT /api/timeline/{id} by the authenticated user
TimelineUpdate(entryId, userId, body) ==
    /\ ncalls < MaxCalls
    /\ ncalls' = ncalls + 1
    /\ entries' = updateTimelineEntry(entryId, userId, entryUpdates(body))
    /\ UNCHANGED <<users, media, nextMediaId, objects, calls, succeededMb, accounts>>

-----------------------------------------------------------------------------
(* The users table as AuthService reads it *)

\* SELECT * FROM users WHERE username = ? (username is UNIQUE)
getUserByUsername(username) ==
    LET ids == { u \in DOMAIN credentials : credentials[u].username = username }
    IN  IF ids = {} THEN Undefined
        ELSE LET u == CHOOSE id \in ids : TRUE
             IN  [id |-> u] @@ credentials[u] @@ users[u]

\* SELECT * FROM users WHERE email = ? (email is UNIQUE)
getUserByEmail(email) ==
    LET ids == { u \in DOMAIN credentials : credentials[u].email = email }
    IN  IF ids = {} THEN Undefined
        ELSE LET u == CHOOSE id \in ids : TRUE
             IN  [id |-> u] @@ credentials[u] @@ users[u]

\* id INTEGER PRIMARY KEY AUTOINCREMENT: no account is ever deleted
nextUserId == Cardinality(DOMAIN users) + 1

-----------------------------------------------------------------------------
(* AuthService.register *)

\* a users table without its UNIQUE constraints
uniqueViolationNone(username, email) ==
    FALSE

\* username TEXT UNIQUE NOT NULL, email TEXT UNIQUE NOT NULL: the INSERT of
\* createUser fails when a row holds the username or the email
uniqueViolation(username, email) ==
    \E u \in DOMAIN credentials :
        credentials[u].username = username \/ credentials[u].email = email

\* lines 158-174: the input checks, then the call to db.getUserByUsername
RegisterCall(p, username, email, password) ==
    /\ FirstFree(p)
    /\ ncalls < MaxCalls
    /\ ncalls' = ncalls + 1
    /\ calls' = [calls EXCEPT ![p] =
           IF registerInputError(username, email, password) # "none"
           THEN [IdleCall EXCEPT !.op = "register", !.pc = "done",
                                 !.result = registerInputError(username, email, password)]
           ELSE [IdleCall EXCEPT !.op = "register", !.pc = "checkUsername",
                                 !.username = username, !.email = email,
                                 !.password = password]]
    /\ UNCHANGED <<shared, succeededMb>>

\* lines 174-179: the row for the username arrives; then the call to
\* db.getUserByEmail
RegisterCheckUsername(p) ==
    /\ calls[p].op = "register" /\ calls[p].pc = "checkUsername"
    /\ calls' = IF getUserByUsername(calls[p].username) # Undefined
                THEN [calls EXCEPT ![p].pc = "done", ![p].result = "UsernameExists"]
                ELSE [calls EXCEPT ![p].pc = "checkEmail"]
    /\ UNCHANGED <<shared, ncalls, succeededMb>>

\* lines 179-193: the row for the email arrives; then the password is
\* hashed under a salt drawn at line 185 and db.createUser called
RegisterCheckEmail(p, salt) ==
    /\ calls[p].op = "register" /\ calls[p].pc = "checkEmail"
    /\ calls' = IF getUserByEmail(calls[p].email) # Undefined
                THEN [calls EXCEPT ![p].pc = "done", ![p].result = "EmailRegistered"]
                ELSE [calls EXCEPT ![p].pc = "createUser",
                                   ![p].passwordHash =
                                       hashPassword(calls[p].password, salt)]
    /\ UNCHANGED <<shared, ncalls, succeededMb>>

\* lines 188-208 and createUser: the INSERT runs; a constraint failure is
\* caught at line 205 and reported as 'Registration failed'
RegisterCreateUser(p) ==
    /\ calls[p].op = "register" /\ calls[p].pc = "createUser"
    /\ IF uniqueViolation(calls[p].username, calls[p].email)
       THEN /\ calls' = [calls EXCEPT ![p].pc = "done",
                                      ![p].result = "RegistrationFailed",
                                      ![p].logged = "ConstraintFailure"]
            /\ UNCHANGED <<users, credentials>>
       ELSE /\ users' = users @@ (nextUserId :> [tier |-> "free", storage_used_mb |-> MB(0)])
            /\ credentials' = credentials @@
                   (nextUserId :> [username |-> calls[p].username,
                                   email |-> calls[p].email,
                                   password_hash |-> calls[p].passwordHash])
            /\ calls' = [calls EXCEPT ![p].pc = "done", ![p].result = "ok",
                                      ![p].userId = nextUserId]
    /\ UNCHANGED <<entries, media, nextMediaId, objects, ncalls, succeededMb,
                   sessions, nextEntryId, clock, issued>>

\* a query of register rejects; the catch of lines 205-208 logs the error
\* and returns 'Registration failed'
RegisterRejects(p) ==
    /\ calls[p].op = "register"
    /\ calls[p].pc \in {"checkUsername", "checkEmail", "createUser"}
    /\ calls' = [calls EXCEPT ![p].pc = "done", ![p].result = "RegistrationFailed",
                              ![p].logged = "DatabaseFailure"]
    /\ UNCHANGED <<shared, ncalls, succeededMb>>

RegisterStep(p) ==
    \/ RegisterCheckUsername(p)
    \/ \E salt \in Salts : RegisterCheckEmail(p, salt)
    \/ RegisterCreateUser(p)
    \/ RegisterRejects(p)

-----------------------------------------------------------------------------
(* AuthService.getUserFromSession *)

\* SELECT * FROM sessions WHERE session_id = ? (session_id is the PRIMARY KEY)
getSession(sessionId) ==
    LET rows == { s \in sessions : s.session_id = sessionId }
    IN  IF rows = {} THEN Undefined ELSE CHOOSE s \in rows : TRUE

\* DELETE FROM sessions WHERE session_id = ?
deleteSession(sessionId) == { s \in sessions : s.session_id # sessionId }

\* the comparison of line 290 turned round
isExpiredReversed(session, time) ==
    session.expires_at > time

\* line 290: new Date(session.expires_at) < new Date()
isExpired(session, time) ==
    session.expires_at < time

\* history, for the properties: the id has been generated, no login is about
\* to insert its row, and its row is gone or expired; its row is there and
\* expired
SessionDead(sessionId) ==
    /\ sessionId \in issued
    /\ \A p \in Procs :
          ~(/\ calls[p].op = "login" /\ calls[p].pc = "createSession"
            /\ calls[p].sessionId = sessionId)
    /\ \A s \in sessions : s.session_id = sessionId => s.expires_at < clock

SessionExpired(sessionId) ==
    \E s \in sessions : s.session_id = sessionId /\ s.expires_at < clock

\* the answer to a request is sent: the slot remembers the request line, the
\* user it was served for, the status and what was logged; the other locals
\* are gone
Answered(c, status, error) ==
    [IdleCall EXCEPT !.op = c.op, !.pc = "done", !.method = c.method,
                     !.entryId = c.entryId, !.userId = c.userId,
                     !.result = status, !.logged = error]

\* the callers of getUserFromSession
SessionCallers == {"session", "timeline"}

\* getUserFromSession returns user, a row or Undefined for null.  Called on
\* its own the call ends; handleTimelineRequest (lines 394-399, through
\* getCurrentUser, 465-470) answers 401 for none and else calls the
\* statement of its method with user.id, the id the row was selected by
Returned(c, user) ==
    IF user = Undefined
    THEN IF c.op = "session" THEN [c EXCEPT !.pc = "done", !.result = "null"]
         ELSE Answered(c, "401", "none")
    ELSE [c EXCEPT !.pc = IF c.op = "session" THEN "done" ELSE "statement",
                   !.result = IF c.op = "session" THEN "user" ELSE "none",
                   !.userId = c.session.user_id,
                   !.user = user]

\* lines 282-286: null for an empty id, else the call to db.getSession
SessionCall(p, sessionId) ==
    /\ FirstFree(p)
    /\ ncalls < MaxCalls
    /\ ncalls' = ncalls + 1
    /\ calls' = [calls EXCEPT ![p] =
           IF sessionId = ""
           THEN Returned([IdleCall EXCEPT !.op = "session"], Undefined)
           ELSE [IdleCall EXCEPT !.op = "session", !.pc = "getSession",
                                 !.sessionId = sessionId,
                                 !.deadAtCall = SessionDead(sessionId),
                                 !.expiredAtCall = SessionExpired(sessionId)]]
    /\ UNCHANGED <<shared, succeededMb>>

\* lines 286-295: the row arrives; no row, null; an expired row, the call to
\* db.deleteSession; else the call to db.getUserById
SessionGetSession(p) ==
    /\ calls[p].op \in SessionCallers /\ calls[p].pc = "getSession"
    /\ LET session == getSession(calls[p].sessionId)
       IN  calls' =
             IF session = Undefined
             THEN [calls EXCEPT ![p] = Returned(@, Undefined)]
             ELSE IF isExpired(session, clock)
             THEN [calls EXCEPT ![p].pc = "deleteSession", ![p].session = session]
             ELSE [calls EXCEPT ![p].pc = "getUser", ![p].session = session]
    /\ UNCHANGED <<shared, ncalls, succeededMb>>

\* lines 291-292: the expired row is deleted and the lookup returns null
SessionDelete(p) ==
    /\ calls[p].op \in SessionCallers /\ calls[p].pc = "deleteSession"
    /\ sessions' = deleteSession(calls[p].sessionId)
    /\ calls' = [calls EXCEPT ![p] = Returned(@, Undefined)]
    /\ UNCHANGED <<users, entries, media, nextMediaId, objects, ncalls, succeededMb,
                   credentials, nextEntryId, clock, issued>>

\* lines 295-296: the user row of the session arrives and is returned
SessionGetUser(p) ==
    /\ calls[p].op \in SessionCallers /\ calls[p].pc = "getUser"
    /\ calls' = [calls EXCEPT ![p] =
                    Returned(@, getUserById(calls[p].session.user_id))]
    /\ UNCHANGED <<shared, ncalls, succeededMb>>

\* DELETE FROM sessions WHERE expires_at < datetime("now") (database.js line
\* 222).  expires_at holds the string of toISOString, 'YYYY-MM-DDTHH:MM:SS.sssZ',
\* and datetime("now") is 'YYYY-MM-DD HH:MM:SS'; the two compare as text, so
\* the dates decide and on equal dates 'T' sorts after the space: a row goes
\* when the UTC day of its expiry is before the current UTC day
deleteExpiredSessions(time) ==
    LET utcDay(t) == t \div (24 * 60 * 60 * 1000)
    IN  { s \in sessions : ~(utcDay(s.expires_at) < utcDay(time)) }

\* AuthService.cleanupExpiredSessions (r2-storage.js lines 354-360): the
\* one statement runs
CleanupExpiredSessions ==
    /\ sessions' = deleteExpiredSessions(clock)
    /\ UNCHANGED <<users, entries, media, nextMediaId, objects, calls, ncalls,
                   succeededMb, credentials, nextEntryId, clock, issued>>

\* a query of getUserFromSession rejects; the catch of lines 299-302 logs
\* the error and returns null
SessionRejects(p) ==
    /\ calls[p].op \in SessionCallers
    /\ calls[p].pc \in {"getSession", "deleteSession", "getUser"}
    /\ calls' = [calls EXCEPT ![p] =
                    [Returned(@, Undefined) EXCEPT !.logged = "DatabaseFailure"]]
    /\ UNCHANGED <<shared, ncalls, succeededMb>>

SessionStep(p) ==
    \/ SessionGetSession(p)
    \/ SessionDelete(p)
    \/ SessionGetUser(p)
    \/ SessionRejects(p)

-----------------------------------------------------------------------------
(* AuthService.login / logout *)

\* lines 217-223: the check of the inputs, then the call to
\* db.getUserByUsername
LoginCall(p, username, password) ==
    /\ FirstFree(p)
    /\ ncalls < MaxCalls
    /\ ncalls' = ncalls + 1
    /\ calls' = [calls EXCEPT ![p] =
           IF username = <<>> \/ password = <<>>
           THEN [IdleCall EXCEPT !.op = "login", !.pc = "done",
                                 !.result = "CredentialsRequired"]
           ELSE [IdleCall EXCEPT !.op = "login", !.pc = "getUser",
                                 !.username = username, !.password = password]]
    /\ UNCHANGED <<shared, succeededMb>>

\* lines 223-242: the row for the username arrives and the password is
\* verified; then the session id is generated, the expiry set to 24 hours
\* from now and db.createSession called
LoginGetUser(p, sessionId, now) ==
    /\ calls[p].op = "login" /\ calls[p].pc = "getUser"
    /\ LET user == getUserByUsername(calls[p].username)
       IN  IF user = Undefined
           THEN /\ calls' = [calls EXCEPT ![p].pc = "done",
                                          ![p].result = "InvalidCredentials"]
                /\ UNCHANGED issued
           ELSE IF ~verifyPassword(calls[p].password, user.password_hash)
           THEN /\ calls' = [calls EXCEPT ![p].pc = "done",
                                          ![p].result = "InvalidCredentials"]
                /\ UNCHANGED issued
           ELSE /\ calls' = [calls EXCEPT
                                ![p].pc = "createSession",
                                ![p].user = user,
                                ![p].userId = user.id,
                                ![p].sessionId = sessionId,
                                ![p].session =
                                    [session_id |-> sessionId,
                                     user_id |-> user.id,
                                     expires_at |-> now + SessionLifetimeMs]]
                /\ issued' = issued \cup {sessionId}
    /\ UNCHANGED <<users, entries, media, nextMediaId, objects, ncalls, succeededMb,
                   credentials, sessions, nextEntryId, clock>>

\* lines 238-259 and createSession: the INSERT runs; session_id is the
\* PRIMARY KEY of sessions, so an insert under an id in use fails, which is
\* caught at line 255 and reported as 'Login failed'
LoginCreateSession(p) ==
    /\ calls[p].op = "login" /\ calls[p].pc = "createSession"
    /\ IF getSession(calls[p].sessionId) # Undefined
       THEN /\ calls' = [calls EXCEPT ![p].pc = "done", ![p].result = "LoginFailed",
                                      ![p].logged = "ConstraintFailure"]
            /\ UNCHANGED sessions
       ELSE /\ sessions' = sessions \cup {calls[p].session}
            /\ calls' = [calls EXCEPT ![p].pc = "done", ![p].result = "ok"]
    /\ UNCHANGED <<users, entries, media, nextMediaId, objects, ncalls, succeededMb,
                   credentials, nextEntryId, clock, issued>>

\* a query of login rejects; the catch of lines 255-258 logs the error and
\* returns 'Login failed'
LoginRejects(p) ==
    /\ calls[p].op = "login" /\ calls[p].pc \in {"getUser", "createSession"}
    /\ calls' = [calls EXCEPT ![p].pc = "done", ![p].result = "LoginFailed",
                              ![p].logged = "DatabaseFailure"]
    /\ UNCHANGED <<shared, ncalls, succeededMb>>

\* lines 266-269: false for an empty session id, else the call to
\* db.deleteSession
LogoutCall(p, sessionId) ==
    /\ FirstFree(p)
    /\ ncalls < MaxCalls
    /\ ncalls' = ncalls + 1
    /\ calls' = [calls EXCEPT ![p] =
           IF sessionId = ""
           THEN [IdleCall EXCEPT !.op = "logout", !.pc = "done", !.result = "false"]
           ELSE [IdleCall EXCEPT !.op = "logout", !.pc = "deleteSession",
                                 !.sessionId = sessionId]]
    /\ UNCHANGED <<shared, succeededMb>>

\* lines 269-270: DELETE FROM sessions WHERE session_id = ? runs and logout
\* returns true
LogoutDeleteSession(p) ==
    /\ calls[p].op = "logout" /\ calls[p].pc = "deleteSession"
    /\ sessions' = deleteSession(calls[p].sessionId)
    /\ calls' = [calls EXCEPT ![p].pc = "done", ![p].result = "true"]
    /\ UNCHANGED <<users, entries, media, nextMediaId, objects, ncalls, succeededMb,
                   credentials, nextEntryId, clock, issued>>

\* the DELETE rejects; the catch of lines 271-274 logs the error and
\* returns false
LogoutRejects(p) ==
    /\ calls[p].op = "logout" /\ calls[p].pc = "deleteSession"
    /\ calls' = [calls EXCEPT ![p].pc = "done", ![p].result = "false",
                              ![p].logged = "DatabaseFailure"]
    /\ UNCHANGED <<shared, ncalls, succeededMb>>

-----------------------------------------------------------------------------
(* TimalServer.handleTimelineRequest behind getCurrentUser *)

\* lines 393-394 and 465-470: a request with its session cookie; without a
\* cookie getCurrentUser returns null and the answer is 401, else the call
\* to getUserFromSession
HandleTimelineCall(p, method, sessionId, entryId, body) ==
    /\ FirstFree(p)
    /\ ncalls < MaxCalls
    /\ ncalls' = ncalls + 1
    /\ calls' = [calls EXCEPT ![p] =
           LET request == [IdleCall EXCEPT !.op = "timeline", !.method = method,
                                           !.entryId = entryId, !.body = body]
           IN  IF sessionId = ""
               THEN Returned(request, Undefined)
               ELSE [request EXCEPT !.pc = "getSession", !.sessionId = sessionId]]
    /\ UNCHANGED <<shared, succeededMb>>

\* the statement of the request throws
statementRejected(c) ==
    CASE c.method = "POST" ->
             entryRowRejected(newEntryRow(entryDataOf(c.userId, c.body)))
      [] c.method = "PUT" -> updateRejected(c.entryId, c.userId, entryUpdates(c.body))
      [] c.method = "DELETE" -> FALSE

\* lines 417-441: the statement of the method runs for the user the session
\* resolved to, and the answer is sent; a statement that fails throws, and
\* handleRequest (lines 303-306) answers 500
HandleTimelineStatement(p) ==
    /\ calls[p].op = "timeline" /\ calls[p].pc = "statement"
    /\ LET c == calls[p]
           entriesLeft == deleteTimelineEntry(c.entryId, c.userId)
           entriesAfter ==
               CASE c.method = "POST" -> createTimelineEntry(entryDataOf(c.userId, c.body))
                 [] c.method = "PUT" ->
                        updateTimelineEntry(c.entryId, c.userId, entryUpdates(c.body))
                 [] c.method = "DELETE" -> entriesLeft
       IN  /\ entries' = entriesAfter
           /\ media' = IF c.method = "DELETE" THEN cascadeMedia(entriesLeft) ELSE media
           /\ nextEntryId' = nextEntryIdAfter(entriesAfter)
           /\ calls' = [calls EXCEPT ![p] =
                           IF statementRejected(c)
                           THEN Answered(c, "500", "ConstraintFailure")
                           ELSE Answered(c, "ok", "none")]
    /\ UNCHANGED <<users, nextMediaId, objects, ncalls, succeededMb,
                   credentials, sessions, clock, issued>>

\* the statement rejects for a reason of the database; handleRequest
\* (lines 303-306) logs the error and answers 500
HandleTimelineStatementFails(p) ==
    /\ calls[p].op = "timeline" /\ calls[p].pc = "statement"
    /\ calls' = [calls EXCEPT ![p] = Answered(@, "500", "DatabaseFailure")]
    /\ UNCHANGED <<shared, ncalls, succeededMb>>

HandleTimelineStep(p) ==
    \/ SessionStep(p)
    \/ HandleTimelineStatement(p)
    \/ HandleTimelineStatementFails(p)

-----------------------------------------------------------------------------
(* Specifications *)

\* no call is in flight
Quiescent == \A p \in Procs : Free(p)

\* the steps of processAndUpload after its first await: the answer to
\* db.getUserById ends the call
UploadStep(p) ==
    \/ UploadGetUser(p)
    \/ UploadGetUserFails(p)

Step(p) ==
    \/ UploadStep(p)
    \/ DeleteGetMedia(p)
    \/ DeleteRejects(p)
    \/ UrlGetMedia(p)
    \/ UrlGetMediaFails(p)

StartUpload(p) ==
    \E userId \in UserIdInputs, entryId \in EntryIdInputs, file \in Files :
        UploadCall(p, userId, entryId, file)

StartDelete(p) ==
    \E mediaId \in MediaIdInputs, userId \in UserIdInputs :
        DeleteCall(p, mediaId, userId)

StartUrl(p) ==
    \E mediaId \in MediaIdInputs, userId \in UserIdInputs :
        UrlCall(p, mediaId, userId)

\* the entry of a user and of another is deleted, and one that is absent
StartTimelineDelete ==
    \E entryId \in EntryIdInputs, userId \in {1, 3} :
        TimelineDelete(entryId, userId)

\* requests arrive at any time and interleave at their await points
Next ==
    \/ \E p \in Procs :
          \/ StartUpload(p)
          \/ StartDelete(p)
          \/ StartUrl(p)
          \/ Step(p)
    \/ StartTimelineDelete

Spec == Init /\ [][Next]_vars

\* one request at a time: a call starts only when no other is in flight
NextSeq ==
    \/ \E p \in Procs :
          \/ Quiescent /\ StartUpload(p)
          \/ Quiescent /\ StartDelete(p)
          \/ Quiescent /\ StartUrl(p)
          \/ Step(p)
    \/ Quiescent /\ StartTimelineDelete

SpecSeq == Init /\ [][NextSeq]_vars

\* The media calls alone: processAndUpload and deleteMedia calls, at any time
\* and interleaved at their await points.  Uploads of an image and of a file
\* validation refuses, by two accounts and an absent one, naming the entry of
\* account 1 and an absent entry; deletes of an attachment of account 1 and
\* of an absent one, by two accounts
StartUploadMedia(p) ==
    \E userId \in {1, 3, 4}, entryId \in {1, 4},
       file \in { f \in Files : f.length <= MiB(5) } :
        UploadCall(p, userId, entryId, file)

StartDeleteMedia(p) ==
    \E mediaId \in {0, 11}, userId \in {1, 3} :
        DeleteCall(p, mediaId, userId)

NextMedia ==
    \E p \in Procs :
        \/ StartUploadMedia(p)
        \/ StartDeleteMedia(p)
        \/ UploadStep(p)
        \/ DeleteGetMedia(p)
        \/ DeleteRejects(p)

SpecMedia == Init /\ [][NextMedia]_vars

\* Uploads of an account that exists and of one that does not, at any time,
\* under the assumption that every awaited call eventually resolves or
\* rejects: a call in flight eventually takes its next step
StartUploadFair(p) ==
    \E userId \in {3, 4}, file \in Files :
        UploadCall(p, userId, 3, file)

NextFair ==
    \E p \in Procs :
        \/ StartUploadFair(p)
        \/ UploadStep(p)

SpecFair ==
    /\ Init
    /\ [][NextFair]_vars
    /\ \A p \in Procs : WF_vars(UploadStep(p))

\* The account, session and timeline requests next to the media calls of
\* account 3, one request at a time
NewUsername == <<"d", "e", "e">>

UsernameInputs == {<<>>, InitUsername(1), NewUsername}
EmailInputs ==
    { InitEmail(1), NewUsername \o <<"@", "x", ".", "i", "o">>,
      <<"e", "@", "x", ".", "i", "o">>, NewUsername }
PasswordInputs == {InitPassword, <<"w", "r", "o", "n", "g">>}
SessionIds == {"s0", "s1"}

StartRegisterCall(p) ==
    \E username \in UsernameInputs, email \in EmailInputs,
       password \in PasswordInputs :
        RegisterCall(p, username, email, password)

StartLogin(p) ==
    \E username \in UsernameInputs, password \in PasswordInputs :
        LoginCall(p, username, password)

\* the steps of login after its first await, the id and the time drawn
LoginStep(p) ==
    \/ \E sessionId \in SessionIds, now \in Timestamps :
           LoginGetUser(p, sessionId, now)
    \/ LoginCreateSession(p)
    \/ LoginRejects(p)

StartLogout(p) == \E sessionId \in SessionIds \cup {""} : LogoutCall(p, sessionId)

\* the bodies of the timeline requests: with a date, without one, with a
\* type outside those of the table and with an empty one
PutBodies == {[date |-> "2024-01-02", text |-> "edited"], [text |-> "edited"]}
PostBodies ==
    PutBodies \cup { [date |-> "2024-01-02", text |-> "edited", type |-> type]
                     : type \in {"bogus", ""} }

StartTimelineCreate ==
    \E userId \in {1, 3}, body \in PostBodies : TimelineCreate(userId, body)

StartTimelineUpdate ==
    \E entryId \in EntryIdInputs, userId \in {1, 3}, body \in PutBodies :
        TimelineUpdate(entryId, userId, body)

NextFrame ==
    \/ \E p \in Procs :
          \/ Quiescent /\ StartUploadFair(p)
          \/ Quiescent /\ StartDelete(p)
          \/ Quiescent /\ StartUrl(p)
          \/ Quiescent /\ StartRegisterCall(p)
          \/ Quiescent /\ StartLogin(p)
          \/ Quiescent /\ StartLogout(p)
          \/ Step(p)
          \/ RegisterStep(p)
          \/ LoginStep(p)
          \/ LogoutDeleteSession(p)
          \/ LogoutRejects(p)
    \/ Quiescent /\ StartTimelineDelete
    \/ Quiescent /\ StartTimelineCreate
    \/ Quiescent /\ StartTimelineUpdate

SpecFrame == Init /\ [][NextFrame]_vars

\* Sessions on their own: logins, logouts and lookups of account 1, at any
\* time and interleaved at their await points, while the clock advances.  A
\* session of account 1 exists from the start.  crypto.randomBytes(32) is
\* taken never to return an id twice.  The clock reads the expiry of the
\* first session, the millisecond after, and lastly the day after.
ClockTimes == {0, SessionLifetimeMs, SessionLifetimeMs + 1}

Tick(time) ==
    /\ time > clock
    /\ clock' = time
    /\ UNCHANGED <<users, entries, media, nextMediaId, objects, calls, ncalls,
                   succeededMb, credentials, sessions, nextEntryId, issued>>

StartLoginOne(p) ==
    \E password \in PasswordInputs : LoginCall(p, InitUsername(1), password)

\* the steps of login with an id never generated before and the time read
\* from the clock
LoginStepFresh(p) ==
    \/ \E sessionId \in SessionIds \ issued : LoginGetUser(p, sessionId, clock)
    \/ LoginCreateSession(p)
    \/ LoginRejects(p)

StartSession(p) == \E sessionId \in SessionIds \cup {""} : SessionCall(p, sessionId)

SessionInit ==
    /\ users = InitUsers
    /\ entries = InitEntries
    /\ media = InitMedia
    /\ nextMediaId = FirstMediaId
    /\ objects = { m.r2_key : m \in InitMedia }
    /\ calls = [p \in Procs |-> IdleCall]
    /\ ncalls = 0
    /\ succeededMb = [u \in 1 .. 3 |-> MB(0)]
    /\ credentials = InitCredentials
    /\ sessions = { [session_id |-> "s0", user_id |-> 1,
                     expires_at |-> SessionLifetimeMs] }
    /\ nextEntryId = FirstEntryId
    /\ clock = 0
    /\ issued = {"s0"}

NextSession ==
    \/ \E p \in Procs :
          \/ StartSession(p)
          \/ SessionStep(p)
          \/ StartLoginOne(p)
          \/ LoginStepFresh(p)
          \/ StartLogout(p)
          \/ LogoutDeleteSession(p)
          \/ LogoutRejects(p)
    \/ CleanupExpiredSessions
    \/ \E time \in ClockTimes \cup {2 * SessionLifetimeMs} : Tick(time)

SpecSession == SessionInit /\ [][NextSession]_vars

\* The timeline requests on their own: account 1 holds a session and sends
\* create, update and delete requests naming its own entry, the entry of
\* account 3 and an absent one, and a delete request without a cookie, at
\* any time and interleaved at their await points, while the clock advances
StartTimelineRequest(p) ==
    \/ \E body \in PostBodies : HandleTimelineCall(p, "POST", "s0", 0, body)
    \/ \E entryId \in EntryIdInputs, body \in PutBodies :
           HandleTimelineCall(p, "PUT", "s0", entryId, body)
    \/ \E entryId \in EntryIdInputs, sessionId \in {"s0", ""} :
           HandleTimelineCall(p, "DELETE", sessionId, entryId, Undefined)

TimelineInit ==
    /\ users = InitUsers
    /\ entries = InitEntries
    /\ media = InitMedia
    /\ nextMediaId = FirstMediaId
    /\ objects = { m.r2_key : m \in InitMedia }
    /\ calls = [p \in Procs |-> IdleCall]
    /\ ncalls = 0
    /\ succeededMb = [u \in 1 .. 3 |-> MB(0)]
    /\ credentials = InitCredentials
    /\ sessions = { [session_id |-> "s0", user_id |-> 1,
                     expires_at |-> SessionLifetimeMs] }
    /\ nextEntryId = FirstEntryId
    /\ clock = 0
    /\ issued = {"s0"}

NextTimeline ==
    \/ \E p \in Procs :
          \/ StartTimelineRequest(p)
          \/ HandleTimelineStep(p)
    \/ Tick(SessionLifetimeMs + 1)

SpecTimeline == TimelineInit /\ [][NextTimeline]_vars

\* Registrations on their own, overlapping at will: names and addresses in
\* use, new ones shared between calls, and invalid ones
NextRegister ==
    \E p \in Procs :
        \/ StartRegisterCall(p)
        \/ RegisterStep(p)

SpecRegister == Init /\ [][NextRegister]_vars

\* Validation on its own (lines 28-49): file names of every supported
\* extension, in either case, of other extensions and of none, one closed by
\* a separator, one whose extension differs from a supported one by a letter
\* outside A-Z, and "..", each with the media type the extension stands for
ValidationNames ==
    { [originalFilename |-> <<"a", ".", "J", "P", "G">>, kind |-> "image"],
      [originalFilename |-> <<"b", ".", "j", "p", "e", "g">>, kind |-> "image"],
      [originalFilename |-> <<"c", ".", "p", "n", "g">>, kind |-> "image"],
      [originalFilename |-> <<"d", ".", "W", "e", "b", "P">>, kind |-> "image"],
      [originalFilename |-> <<"e", ".", "g", "i", "f">>, kind |-> "image"],
      [originalFilename |-> <<"v", ".", "m", "p", "4">>, kind |-> "video"],
      [originalFilename |-> <<"w", ".", "W", "E", "B", "M">>, kind |-> "video"],
      [originalFilename |-> <<"x", ".", "m", "o", "v">>, kind |-> "video"],
      [originalFilename |-> <<"y", ".", "a", "v", "i">>, kind |-> "video"],
      [originalFilename |-> <<"n", ".", "t", "x", "t">>, kind |-> "none"],
      [originalFilename |-> <<"j", "p", "g">>, kind |-> "none"],
      [originalFilename |-> <<"s", ".", "j", "p", "g", "/">>, kind |-> "image"],
      [originalFilename |-> <<"u", ".", "J", "P", "É", "G">>, kind |-> "none"],
      [originalFilename |-> <<".", ".">>, kind |-> "none"],
      [originalFilename |-> <<"p", ".", "p", "n", "g", ".", "e", "x", "e">>, kind |-> "none"] }

\* byte lengths around the two ceilings
ValidationLengths ==
    { MiB(1), MiB(MaxImageMB) - 1, MiB(MaxImageMB), MiB(MaxImageMB) + 1,
      MiB(MaxVideoMB), MiB(MaxVideoMB) + 1 }

ValidationFiles ==
    { [originalFilename |-> n.originalFilename, length |-> l]
      : n \in ValidationNames, l \in ValidationLengths }

NextValidate ==
    \E p \in Procs, file \in ValidationFiles :
        UploadCall(p, 1, 1, file)

SpecValidate == Init /\ [][NextValidate]_vars

\* Key generation on its own: calls of R2Storage.uploadFile, one at a time,
\* for two accounts, with file names that have characters to replace, a
\* directory part, several dots, a closing separator, and base names of 50
\* and of 60 characters
Repeat(c, n) == [i \in 1 .. n |-> c]

KeyFilenames ==
    { <<"m", "y", " ", "p", "h", "o", "t", "o", "(", "1", ")", ".", "J", "P", "G">>,
      Repeat("x", MaxNameLen + 10) \o <<".", "p", "n", "g">>,
      Repeat("y", MaxNameLen) \o <<".", "w", "e", "b", "m">>,
      <<"d", "i", "r", "/", "s", ".", "d", "/", "c", "l", "i", "p", ".", "v", "2", ".", "m", "p", "4">>,
      <<"-", "_", "a", "Z", "0", "9", ".", "g", "i", "f">>,
      <<"d", "/", "É", "a", ".", "p", "n", "g", "/">> }

StartUploadFile(p) ==
    \E name \in KeyFilenames, userId \in {1, 3},
       timestamp \in Timestamps, randomId \in RandomIds :
        UploadFileCall(p, name, MiB(1), userId, timestamp, randomId)

NextKeys ==
    \E p \in Procs :
        \/ Quiescent /\ StartUploadFile(p)
        \/ UploadFileSend(p)
        \/ UploadFileSendFails(p)

SpecKeys == Init /\ [][NextKeys]_vars

\* The image transform on its own (lines 119-150): processImage, a method
\* of its own, at work on an image of 5 MB, with the width and height of the
\* image drawn around maxDimension
DimensionInputs == {1, 1000, 2047, 2048, 2049, 3000, 4096, 6000}

ResizeInit ==
    /\ users = InitUsers
    /\ entries = InitEntries
    /\ InitAccounts
    /\ media = InitMedia
    /\ nextMediaId = FirstMediaId
    /\ objects = { m.r2_key : m \in InitMedia }
    /\ calls = [p \in Procs |->
                  IF p = 1
                  THEN [IdleCall EXCEPT !.op = "upload", !.pc = "transform",
                                        !.userId = 1, !.entryId = 1,
                                        !.originalFilename = <<"a", ".", "J", "P", "G">>,
                                        !.length = MiB(5),
                                        !.mediaType = "image",
                                        !.user = InitUsers[1]]
                  ELSE IdleCall]
    /\ ncalls = 1
    /\ succeededMb = [u \in 1 .. 3 |-> MB(0)]

NextResize ==
    \E p \in Procs :
        \/ \E width \in DimensionInputs, height \in DimensionInputs :
              UploadImageMetadata(p, [width |-> width, height |-> height])
        \/ \E n \in ProcessedLengths(calls[p].length) : UploadImageToBuffer(p, n)
        \/ UploadImageFinalMetadata(p)

SpecResize == ResizeInit /\ [][NextResize]_vars

\* Every step of the media handler, those no call reaches included: lines
\* 57-106 of processAndUpload, lines 187-199 of deleteMedia
NextWhole ==
    \/ Next
    \/ \E p \in Procs :
          \/ UploadProcessImage(p)
          \/ UploadProcessImageFails(p)
          \/ UploadPut(p)
          \/ UploadPutFails(p)
          \/ UploadInsert(p)
          \/ UploadInsertFails(p)
          \/ UploadUpdateUsage(p)
          \/ UploadUpdateUsageFails(p)
          \/ DeleteFile(p)
          \/ DeleteFileFails(p)
          \/ DeleteRow(p)
          \/ DeleteGetUser(p)
          \/ DeleteUpdateUsage(p)

SpecWhole == Init /\ [][NextWhole]_vars

-----------------------------------------------------------------------------
(* Vocabulary of the properties *)

RECURSIVE SetSum(_, _)
\* the sum of f[x] over the finite set S
SetSum(S, f) ==
    IF S = {} THEN 0
    ELSE LET x == CHOOSE y \in S : TRUE
         IN  f[x] + SetSum(S \ {x}, f)

\* the complete attachments on entries owned by an account
CompleteRowsOf(userId) ==
    { m \in media : /\ m.upload_status = "complete"
                    /\ m.entry_id \in DOMAIN entries
                    /\ entries[m.entry_id].user_id = userId }

CompleteMb(userId) ==
    LET rows == CompleteRowsOf(userId)
    IN  Frac(SetSum({ m.id : m \in rows },
                    [i \in { m.id : m \in rows } |->
                        (CHOOSE m \in rows : m.id = i).file_size_mb.num]))

Limited(tier) == TierLimitMB(tier) > 0

\* the errors of the steps that follow the quota step
PipelineFailures ==
    {"TransformFailure", "StoreFailure", "InsertFailure", "UsageUpdateFailure"}

\* the pipeline positions after the quota step
PastQuota == ImageWaits \cup {"put", "insert", "updateUsage"}

\* an upload call that has passed validation and read its user row, on
\* which the quota step acts
Decided(c) == c.op = "upload" /\ c.user # Undefined

-----------------------------------------------------------------------------
(* Properties *)

\* C1: whenever no call is in flight, every account's storage_used_mb equals
\* the sum of file_size_mb over the complete attachments on its entries.
C1_AccountingInvariant ==
    Quiescent =>
        \A u \in DOMAIN users : users[u].storage_used_mb = CompleteMb(u)

\* C1 witness: an upload by account 1 and a delete of its attachment 11 have
\* both failed, no call is in flight, and every counter equals the sum over
\* the complete attachments
C1_Witness ==
    /\ Quiescent
    /\ \E p, q \in Procs :
          /\ calls[p].op = "upload" /\ calls[p].userId = 1
          /\ calls[p].result = "TypeError"
          /\ calls[q].op = "delete" /\ calls[q].userId = 1
          /\ calls[q].mediaId = 11 /\ calls[q].result = "TypeError"
    /\ \A u \in DOMAIN users : users[u].storage_used_mb = CompleteMb(u)

\* the size of the upload added to the usage the call read is within the
\* ceiling of the tier
Fits(c) ==
    c.user.storage_used_mb.num + c.length <= TierLimitMB(c.user.tier) * BytesPerMB

\* C4: an upload that has passed validation and has ended, for an account
\* of a tier with a finite non-zero ceiling C, read with usage U, and not in
\* the failure of the transform, the put or a later step, has succeeded if
\* and only if U + S <= C, S being its size.
C4_QuotaIff ==
    \A p \in Procs :
        LET c == calls[p]
        IN  (/\ Decided(c) /\ c.pc = "done"
             /\ Limited(c.user.tier)
             /\ c.result \notin PipelineFailures) =>
                ((c.result = "ok") <=> Fits(c))

\* C5: an upload by an account of the zero-ceiling tier that has passed
\* validation and read the account has failed with QuotaExceeded.
C5_FreeTierRejected ==
    \A p \in Procs :
        LET c == calls[p]
        IN  (Decided(c) /\ TierLimitMB(c.user.tier) = FreeTierStorageMB) =>
                c.pc = "done" /\ c.result = "QuotaExceeded"

\* C6: the quota step never rejects an upload of an account of the
\* unlimited tier: once the account is read, the call is past the quota step
\* and ends in success or in the failure of a later step.
C6_UnlimitedTierAdmitted ==
    \A p \in Procs :
        LET c == calls[p]
        IN  (Decided(c) /\ TierLimitMB(c.user.tier) = ProTierStorageMB) =>
                \/ c.pc \in PastQuota
                \/ c.pc = "done" /\ c.result \in {"ok"} \cup PipelineFailures

\* C7: one request at a time, an upload of a valid file within quota by an
\* existing account that has ended, and not in the failure of the transform,
\* the put or a later step, has succeeded: its object is in the bucket, one
\* complete row references the key, and storage_used_mb is what the call
\* read plus the stored size.
C7_UploadSucceeds ==
    \A p \in Procs :
        LET c == calls[p]
        IN  (/\ Decided(c) /\ c.pc = "done"
             /\ (Limited(c.user.tier) => Fits(c))
             /\ TierLimitMB(c.user.tier) # FreeTierStorageMB
             /\ c.result \notin PipelineFailures) =>
                /\ c.result = "ok"
                /\ c.key \in objects
                /\ Cardinality({ m \in media : /\ m.r2_key = c.key
                                               /\ m.upload_status = "complete" }) = 1
                /\ users[c.userId].storage_used_mb = newStorageUsed(c)

\* C8: the step in which the quota step ends an upload that has read its
\* account, and the step that started the call, leave the users, timeline
\* and attachment tables and the bucket as they were.
C8_QuotaRejectNoEffect ==
    [][ \A p \in Procs :
            (\/ /\ calls[p].op = "upload" /\ calls[p].pc = "getUser"
                /\ calls'[p].pc = "done" /\ calls'[p].user # Undefined
             \/ calls[p].pc # "getUser" /\ calls'[p].pc = "getUser") =>
                UNCHANGED <<users, entries, media, nextMediaId, objects>>
      ]_vars

\* C8 witness: an upload of 10.5 MB, which does not fit, by the personal
\* account holding 590 MB has been ended by the quota step; the counter
\* still reads 590 and rows and bucket are the initial ones
C8_Witness ==
    \E p \in Procs :
        /\ Decided(calls[p]) /\ calls[p].pc = "done"
        /\ calls[p].user = [tier |-> "personal", storage_used_mb |-> MB(590)]
        /\ ~Fits(calls[p])
        /\ calls[p].result = "TypeError"
        /\ users[calls[p].userId].storage_used_mb = MB(590)
        /\ media = InitMedia
        /\ objects = { m.r2_key : m \in InitMedia }

\* Lemma: no processAndUpload call gets past the call of line 52, so lines
\* 53-106 (transform, put, insert, counter update) never run.
UploadStopsAtPermissionCheck ==
    \A p \in Procs :
        calls[p].op = "upload" =>
            /\ calls[p].pc \in {"getUser", "done"}
            /\ calls[p].pc = "done" =>
                   calls[p].result \in {"UnsupportedMediaType", "FileTooLarge",
                                        "UserNotFound", "TypeError", "DatabaseFailure"}

\* Lemma for C9 and C10: no deleteMedia call gets past the ownership check of
\* line 182, so lines 187-199 (object delete, row delete, counter update)
\* never run.
DeleteStopsAtOwnershipCheck ==
    \A p \in Procs :
        calls[p].op = "delete" =>
            /\ calls[p].pc \in {"getMedia", "done"}
            /\ calls[p].pc = "done" =>
                   calls[p].result \in {"NotFoundOrDenied", "TypeError", "DatabaseFailure"}

\* C10: a deleteMedia call by the account that owns the attachment's entry,
\* none of whose queries was rejected, succeeds, and the attachment row is
\* gone when it has returned.
C10_OwnerDeleteSucceeds ==
    \A p \in Procs :
        LET c == calls[p]
        IN  (c.op = "delete" /\ c.pc = "done" /\ c.result # "DatabaseFailure") =>
                ~ \E m \in media :
                      /\ m.id = c.mediaId
                      /\ m.entry_id \in DOMAIN entries
                      /\ entries[m.entry_id].user_id = c.userId

\* the account that owns the entry of an attachment row
OwnerOf(m) == entries[m.entry_id].user_id

\* the stored attachment rows with a given id
RowsWithId(mediaId) == { m \in media : m.id = mediaId /\ m.entry_id \in DOMAIN entries }

\* Lemma for C11 and C12: no step of a deleteMedia or getMediaUrl call writes
\* to the tables or to the bucket.
DeleteAndUrlChangeNothing ==
    [][ \A p \in Procs :
            (calls'[p] # calls[p] /\ calls'[p].op \in {"delete", "url"}) =>
                UNCHANGED <<users, entries, media, nextMediaId, objects>>
      ]_vars

\* C11: a deleteMedia call by an account that does not own the entry of the
\* attachment, whose read of the row was answered, has failed with the
\* access-denied error once it has returned, and the row and its object are
\* still stored.
C11_NonOwnerDeleteDenied ==
    \A p \in Procs :
        LET c == calls[p]
        IN  (c.op = "delete" /\ c.pc = "done" /\ c.result # "DatabaseFailure") =>
                \A m \in RowsWithId(c.mediaId) :
                    OwnerOf(m) # c.userId =>
                        /\ c.result = "NotFoundOrDenied"
                        /\ m.r2_key \in objects

\* C12: a getMediaUrl call that has returned, its read of the row answered,
\* gave a signed URL to the owner of the attachment's entry and the
\* access-denied error to any other account.
C12_UrlOnlyToOwner ==
    \A p \in Procs :
        LET c == calls[p]
        IN  (c.op = "url" /\ c.pc = "done" /\ c.result # "DatabaseFailure") =>
                \A m \in RowsWithId(c.mediaId) :
                    IF OwnerOf(m) = c.userId
                    THEN c.result = "ok"
                    ELSE c.result = "NotFoundOrDenied"

\* Lemma for C2, C3, C14, C31, C33 and C34: no step of a media call writes
\* the users table; the counter update of line 98 and the decrement of line
\* 197 never run.
MediaCallsNeverWriteCounter ==
    [][ (\E p \in Procs : calls'[p] # calls[p]) => users' = users ]_vars

\* Lemma for C19 and C21: the attachment rows are those of the start or
\* fewer; no media call inserts one.
NoRowInserted == media \subseteq InitMedia /\ nextMediaId = FirstMediaId

\* Lemma for C20: the key of every complete row names an object in the
\* bucket.
CompleteRowsHaveObjects ==
    \A m \in media : m.upload_status = "complete" => m.r2_key \in objects

\* the media type a file name of ValidationNames stands for
KindOf(originalFilename) ==
    (CHOOSE n \in ValidationNames : n.originalFilename = originalFilename).kind

\* a call that has loaded no account, stored no object and inserted no row
NoAccess(c) == c.user = Undefined /\ c.key = Undefined /\ c.mediaId = 0

\* C23: an upload of a file whose extension, in whichever case, is in
\* neither set has failed with UnsupportedMediaType without loading the
\* account, storing an object or inserting a row; an upload of a file with
\* an image or video extension is not refused as unsupported and is
\* classified by its extension.
C23_UnsupportedRejectedFirst ==
    \A p \in Procs :
        LET c == calls[p]
        IN  c.op = "upload" =>
                IF KindOf(c.originalFilename) = "none"
                THEN c.pc = "done" /\ c.result = "UnsupportedMediaType" /\ NoAccess(c)
                ELSE /\ c.result # "UnsupportedMediaType"
                     /\ c.pc = "getUser" => c.mediaType = KindOf(c.originalFilename)

\* C23 witness: a .txt file was refused and a .JPG file was classified as an
\* image
C23_Witness ==
    \E p, q \in Procs :
        /\ calls[p].result = "UnsupportedMediaType"
        /\ calls[p].originalFilename = <<"n", ".", "t", "x", "t">>
        /\ calls[q].pc = "getUser"
        /\ calls[q].originalFilename = <<"a", ".", "J", "P", "G">>
        /\ calls[q].mediaType = "image"

\* C24: an upload of an image of more than 10 MB, or of a video of more than
\* 100 MB, and no other, has failed with FileTooLarge; the error names the
\* media type and its limit, and the call loaded no account, stored no
\* object and inserted no row.  A file of exactly the ceiling is not refused.
C24_TooLargeRejected ==
    \A p \in Procs :
        LET c == calls[p]
            kind == KindOf(c.originalFilename)
            limitMB == IF kind = "image" THEN 10 ELSE 100
        IN  (c.op = "upload" /\ kind # "none") =>
                /\ (c.result = "FileTooLarge") <=> (c.length > limitMB * 1024 * 1024)
                /\ c.result = "FileTooLarge" =>
                       /\ c.pc = "done"
                       /\ c.detail = [mediaType |-> kind, limitMB |-> limitMB]
                       /\ NoAccess(c)

\* C24 witness: an image of 10 MB and one byte was refused, an image of
\* exactly 10 MB passed validation
C24_Witness ==
    \E p, q \in Procs :
        /\ calls[p].result = "FileTooLarge"
        /\ KindOf(calls[p].originalFilename) = "image"
        /\ calls[p].length = 10 * 1024 * 1024 + 1
        /\ calls[q].pc = "getUser"
        /\ KindOf(calls[q].originalFilename) = "image"
        /\ calls[q].length = 10 * 1024 * 1024

\* C30: the step that ends the user lookup of an upload for an account id
\* that is in no row of the users table ends the call, with the
\* account-not-found error when the lookup was answered, with no user row
\* read and so no quota decision, and writes nothing.
C30_UnknownAccountRejected ==
    [][ \A p \in Procs :
            (/\ calls[p].op = "upload" /\ calls[p].pc = "getUser"
             /\ calls[p].userId \notin DOMAIN users
             /\ calls'[p] # calls[p]) =>
                /\ calls'[p].pc = "done"
                /\ calls'[p].result \in {"UserNotFound", "DatabaseFailure"}
                /\ calls'[p].user = Undefined
                /\ calls'[p].key = Undefined /\ calls'[p].mediaId = 0
                /\ UNCHANGED <<users, entries, media, nextMediaId, objects>>
      ]_vars

\* C30 witness: an upload for account 4, which does not exist, has failed
\* with the account-not-found error
C30_Witness ==
    \E p \in Procs :
        /\ calls[p].op = "upload" /\ calls[p].userId = 4
        /\ calls[p].result = "UserNotFound"
        /\ 4 \notin DOMAIN users
        /\ media = InitMedia
        /\ objects = { m.r2_key : m \in InitMedia }

\* the characters a sanitised base name may contain
KeyNameChars ==
    Range(UpperChars) \cup Range(LowerChars) \cup Range(DigitChars) \cup {"_", "-"}

\* position of the first occurrence of c in s; 0 if none
FirstIndexOf(c, s) ==
    LET hits == { i \in DOMAIN s : s[i] = c }
    IN  IF hits = {} THEN 0 ELSE CHOOSE i \in hits : \A j \in hits : i <= j

\* s is users/{accountId}/{digits}_{16 hex}_{base}{ext} with base made of
\* KeyNameChars, at most 50 of them, and ext empty or opened by its only dot
WellFormedKey(s, accountId) ==
    LET prefix == <<"u", "s", "e", "r", "s", "/">> \o digitsOf(accountId) \o <<"/">>
        rest == SubSeq(s, Len(prefix) + 1, Len(s))
        us == FirstIndexOf("_", rest)
        tail == SubSeq(rest, us + 18, Len(rest))
        dot == FirstIndexOf(".", tail)
        base == IF dot = 0 THEN tail ELSE SubSeq(tail, 1, dot - 1)
    IN  /\ Len(s) > Len(prefix)
        /\ SubSeq(s, 1, Len(prefix)) = prefix
        /\ us > 1
        /\ \A i \in 1 .. us - 1 : rest[i] \in Range(DigitChars)
        /\ Len(rest) >= us + 17
        /\ \A i \in us + 1 .. us + 16 : rest[i] \in Range(HexChars)
        /\ rest[us + 17] = "_"
        /\ \A i \in DOMAIN base : base[i] \in KeyNameChars
        /\ Len(base) <= 50

\* C29: the key an R2Storage.uploadFile call has built has the form
\* users/{accountId}/{unixMillis}_{16 hex}_{sanitizedBaseName}{ext} with the
\* id of the account the call was made for in the prefix, a base name of
\* characters of [A-Za-z0-9_-] only, at most 50 of them, and the extension
\* of the file; the object of a call that has returned is stored under it.
C29_KeyFormat ==
    \A p \in Procs :
        LET c == calls[p]
        IN  (c.op = "uploadFile" /\ c.key # Undefined) =>
                /\ WellFormedKey(keyString(c.key), c.userId)
                /\ EndsWith(keyString(c.key), extname(c.originalFilename))
                /\ c.result = "ok" => c.key \in objects

\* C29 witness: the object of a file with a base name of 60 characters,
\* sent at a time of ten digits, is stored under a key whose base name has 50
C29_Witness ==
    \E p \in Procs :
        /\ calls[p].op = "uploadFile" /\ calls[p].result = "ok"
        /\ Len(calls[p].originalFilename) = 64
        /\ Len(calls[p].key.name) = 50
        /\ calls[p].key.timestamp = 1234567890
        /\ calls[p].key \in objects

\* the longer and the shorter side of an image
LongerSide(d) == IF d.width >= d.height THEN d.width ELSE d.height
ShorterSide(d) == IF d.width >= d.height THEN d.height ELSE d.width

\* C28: the transform of an image whose longer side exceeds 2048, a square
\* one included, gives an output whose longer side is 2048 and whose shorter
\* side is the one of the same aspect ratio, to the nearest pixel (a single
\* pixel where the ratio asks for less than that); an image whose longer side
\* is at most 2048 keeps its size.
C28_LongerSideCapped ==
    [][ \A p \in Procs :
            (calls[p].pc = "finalMetadata" /\ calls'[p].pc = "put") =>
                LET in == calls[p].dimensions
                    out == calls'[p].dimensions
                    off == ShorterSide(out) * LongerSide(in) - ShorterSide(in) * 2048
                IN  IF LongerSide(in) > 2048
                    THEN /\ LongerSide(out) = 2048
                         /\ (out.width >= out.height) = (in.width >= in.height)
                         /\ \/ 2 * off <= LongerSide(in) /\ 0 - 2 * off <= LongerSide(in)
                            \/ ShorterSide(out) = 1 /\ off > 0
                    ELSE out = in
      ]_vars

\* C22: once a timeline entry has been destroyed and no call is in flight,
\* every account's storage_used_mb equals the sum of the sizes of its
\* remaining complete attachments, and every object in the bucket has an
\* attachment row pointing at it.
C22_CascadeKeepsAccounting ==
    (Quiescent /\ DOMAIN entries # DOMAIN InitEntries) =>
        /\ \A u \in DOMAIN users : users[u].storage_used_mb = CompleteMb(u)
        /\ \A k \in objects : \E m \in media : m.r2_key = k

\* C26: every upload that has been accepted eventually reaches a terminal
\* outcome, success or failure, provided each awaited call eventually
\* returns or fails; no attachment row is ever pending or processing; and
\* the status a row was written with never changes afterwards.
C26_UploadTerminates ==
    /\ [](\A m \in media : m.upload_status \notin {"pending", "processing"})
    /\ [][\A m \in media : \A n \in media' :
              n.id = m.id => n.upload_status = m.upload_status]_vars
    /\ \A p \in Procs :
          (calls[p].op = "upload" /\ calls[p].pc \notin {"idle", "done"})
              ~> (calls[p].pc = "done" /\ calls[p].result # "none")

\* C26 witness: two uploads that had passed validation have ended, one for
\* an account that exists and one for an account that does not
C26_Witness ==
    \E p, q \in Procs :
        /\ calls[p].op = "upload" /\ calls[p].pc = "done"
        /\ calls[p].user # Undefined /\ calls[p].result = "TypeError"
        /\ calls[q].op = "upload" /\ calls[q].pc = "done"
        /\ calls[q].result = "UserNotFound"

\* C27: an account's storage_used changes only in the usage update that ends
\* an upload or a delete of that account, after the attachment row of the
\* upload has been written or the row of the delete removed; registration,
\* login, logout, the timeline requests and getMediaUrl leave every
\* account's storage_used unchanged.
C27_OnlyCoordinatorMutatesUsage ==
    [][\A u \in DOMAIN users :
          /\ u \in DOMAIN users'
          /\ users'[u].storage_used_mb # users[u].storage_used_mb =>
                \E p \in Procs :
                    /\ calls[p].userId = u
                    /\ calls[p].pc = "updateUsage"
                    /\ calls'[p].pc = "done"
                    /\ \/ /\ calls[p].op = "upload"
                          /\ \E m \in media : m.r2_key = calls[p].key
                       \/ /\ calls[p].op = "delete"
                          /\ \A m \in media : m.id # calls[p].mediaId]_vars

\* C27 witness: an account has been registered with nothing stored and a
\* timeline entry has been created, and the counters of the accounts of the
\* start are what they were
C27_Witness ==
    /\ 4 \in DOMAIN users
    /\ users[4].storage_used_mb = MB(0)
    /\ nextEntryId > FirstEntryId
    /\ \A u \in 1 .. 3 : users[u] = InitUsers[u]

\* the entry an upload names is not the uploader's: it belongs to another
\* account, or no entry has ever had that id
NamesForeignEntry(c) ==
    \/ c.entryId \in DOMAIN entries /\ entries[c.entryId].user_id # c.userId
    \/ c.entryId >= nextEntryId

\* C32: an upload that names an entry of another account, or an entry that
\* does not exist, never succeeds, holds no key of a stored object and no id
\* of an inserted row; no attachment row hangs on an entry whose owner is not
\* the account its key names; and no step of such an upload changes the
\* users table, the attachment rows or the bucket.
C32_AttachOnlyToOwnEntry ==
    /\ [](\A p \in Procs :
            (calls[p].op = "upload" /\ NamesForeignEntry(calls[p])) =>
                /\ calls[p].result # "ok"
                /\ calls[p].key = Undefined
                /\ calls[p].mediaId = 0)
    /\ [](\A m \in media :
            m.entry_id \in DOMAIN entries =>
                entries[m.entry_id].user_id = m.r2_key.userId)
    /\ [][\A p \in Procs :
              (/\ calls'[p] # calls[p]
               /\ calls'[p].op = "upload"
               /\ NamesForeignEntry(calls'[p])) =>
                  UNCHANGED <<users, media, nextMediaId, objects>>]_vars

\* C32 witness: an upload by account 3 naming entry 1, which is account
\* 1's, and an upload by account 1 naming entry 4, which does not exist, have
\* both ended; rows, bucket and counters are the initial ones
C32_Witness ==
    \E p, q \in Procs :
        /\ calls[p].op = "upload" /\ calls[p].pc = "done"
        /\ calls[p].userId = 3 /\ calls[p].entryId = 1
        /\ calls[p].user = InitUsers[3]
        /\ calls[q].op = "upload" /\ calls[q].pc = "done"
        /\ calls[q].userId = 1 /\ calls[q].entryId = 4
        /\ calls[q].user = InitUsers[1]
        /\ media = InitMedia
        /\ objects = { m.r2_key : m \in InitMedia }
        /\ users = InitUsers

\* Lemma for C33: two deleteMedia calls for attachment 11 by its owner, both
\* in flight at once, have both ended in the TypeError of line 182 with the
\* row, the object and the counter as they were.
TwoOwnerDeletesBothThrew ==
    \E p, q \in Procs :
        /\ p # q
        /\ \A r \in {p, q} :
              /\ calls[r].op = "delete" /\ calls[r].pc = "done"
              /\ calls[r].mediaId = 11 /\ calls[r].userId = 1
              /\ calls[r].result = "TypeError"
        /\ users = InitUsers /\ media = InitMedia

\* C36: a lookup called for a session id that has been logged out, or whose
\* expiry time has passed, returns no user; a session that is gone or
\* expired stays so for ever; and once a lookup called for an expired
\* session has returned, none of its queries rejected, the row of that
\* session is deleted.
C36_DeadSessionResolvesNoUser ==
    /\ [](\A p \in Procs :
            (calls[p].op = "session" /\ calls[p].pc = "done") =>
                /\ calls[p].deadAtCall => calls[p].result = "null"
                /\ (calls[p].expiredAtCall /\ calls[p].logged = "none") =>
                       \A s \in sessions : s.session_id # calls[p].sessionId)
    /\ [][\A sessionId \in SessionIds :
              SessionDead(sessionId) => SessionDead(sessionId)']_vars

\* C36 witness: a lookup of the session of account 1, called after its
\* expiry had passed, has returned no user and the row is deleted, while a
\* lookup called before has returned the user
C36_Witness ==
    \E p, q \in Procs :
        /\ calls[p].op = "session" /\ calls[p].pc = "done"
        /\ calls[p].sessionId = "s0" /\ calls[p].expiredAtCall
        /\ calls[p].result = "null" /\ calls[p].logged = "none"
        /\ getSession("s0") = Undefined
        /\ calls[q].op = "session" /\ calls[q].pc = "done"
        /\ calls[q].sessionId = "s0" /\ calls[q].result = "user"

\* the entry with its attachment rows is the same before and after the step
EntryUntouched(e) ==
    /\ e \in DOMAIN entries'
    /\ entries'[e] = entries[e]
    /\ { m \in media' : m.entry_id = e } = { m \in media : m.entry_id = e }

\* C35: every step of a timeline update or delete request leaves every entry
\* that is not owned by the user the request is authenticated as, and the
\* attachments of that entry, unchanged.
C35_OnlyOwnEntriesChange ==
    [][\A p \in Procs :
          (/\ calls'[p] # calls[p]
           /\ calls'[p].op = "timeline"
           /\ calls'[p].method \in {"PUT", "DELETE"}) =>
              \A e \in DOMAIN entries :
                  entries[e].user_id # calls'[p].userId => EntryUntouched(e)]_vars

\* C35 witness: account 1 has sent an update naming the entry of account 3
\* and a delete naming its own entry; both were answered, the own entry is
\* deleted with its attachments and the entry of account 3 and its
\* attachments are as they were
C35_Witness ==
    \E p, q \in Procs :
        /\ calls[p].op = "timeline" /\ calls[p].pc = "done"
        /\ calls[p].method = "PUT" /\ calls[p].entryId = 3
        /\ calls[p].userId = 1 /\ calls[p].result = "ok"
        /\ calls[q].op = "timeline" /\ calls[q].pc = "done"
        /\ calls[q].method = "DELETE" /\ calls[q].entryId = 1
        /\ calls[q].userId = 1 /\ calls[q].result = "ok"
        /\ 1 \notin DOMAIN entries
        /\ \A m \in media : m.entry_id # 1
        /\ 3 \in DOMAIN entries
        /\ entries[3] = InitEntries[3]
        /\ { m \in media : m.entry_id = 3 } = { m \in InitMedia : m.entry_id = 3 }

\* C37: however register calls interleave, no two user rows share a
\* username or an email, and a register call that ends without success has
\* created no user in the step that ended it.
C37_NoDuplicateAccounts ==
    /\ [](\A u, v \in DOMAIN credentials :
            u # v => /\ credentials[u].username # credentials[v].username
                     /\ credentials[u].email # credentials[v].email)
    /\ [](DOMAIN users = DOMAIN credentials)
    /\ [][\A p \in Procs :
              (/\ calls[p].op = "register" /\ calls[p].pc # "done"
               /\ calls'[p].pc = "done" /\ calls'[p].result # "ok") =>
                  UNCHANGED <<users, credentials>>]_vars

\* C37 witness: two register calls for the same new username have both
\* passed their existence checks; one has created the user and the other
\* has ended in 'Registration failed'
C37_Witness ==
    \E p, q \in Procs :
        /\ calls[p].op = "register" /\ calls[p].result = "ok"
        /\ calls[q].op = "register" /\ calls[q].result = "RegistrationFailed"
        /\ calls[q].logged = "ConstraintFailure"
        /\ Cardinality(DOMAIN users) = Cardinality(DOMAIN InitUsers) + 1
        /\ credentials[calls[p].userId].username = NewUsername

=============================================================================
